---- MODULE Spec2Model ----
(***************************************************************************)
(* One run of the US Census Bureau scraper actor: main() of src/main.ts    *)
(* with the collaborators it calls (fetchAllSearchResults,                 *)
(* fetchTableMetadata, fetchTableData, findFullTableId, mapCensusTable).   *)
(*                                                                         *)
(* The upstream HTTP API and the dataset sink are the environment.  Every  *)
(* upstream answer is chosen nondeterministically when the request         *)
(* settles.  The sink may reject the push of a table record (the push      *)
(* inside the try block); it accepts error records.                        *)
(*                                                                         *)
(* Identifiers are records [prefix, year, code] that serialise to          *)
(* prefix ++ year ++ "." ++ code; a bare code has an empty prefix and      *)
(* year, and the empty string is the identifier with three empty parts.    *)
(* Serialised sizes are byte counts.                                       *)
(***************************************************************************)
EXTENDS Integers, Sequences, FiniteSets, TLC

----------------------------------------------------------------------------
(* Bounds of the model *)

\* number of non-empty result pages the upstream serves before it is exhausted
MaxPages == 2
\* largest maxItems given in the input
MaxCap == 3
\* number of answers of a run that are not the plain one: a failed request, a body
\* naming another table, oversized content, a rejected push
MaxFaults == 2
\* PAGE_SIZE of fetchAllSearchResults, 50 in the source: scaled down so that full
\* and short pages both occur over the tables of the model
PAGE_SIZE == 3
\* BATCH_SIZE of main, 20 in the source: scaled down so that a run has several batches
BATCH_SIZE == 2

----------------------------------------------------------------------------
(* Identifiers *)

MkId(p, y, c) == [prefix |-> p, year |-> y, code |-> c]

\* undefined or the empty string: falsy in every test of the source
NoId == MkId("", "", "")

\* tableId.includes('.')
includesDot(id) == id.prefix # "" \/ id.year # ""

\* the table instances the upstream search knows, in the order it lists them
TableSeq ==
    << MkId("ACSDT1Y", "2021", "B01001"),
       MkId("ACSDT5Y", "2021", "B01001"),
       MkId("ACSDT1Y", "2023", "B19013") >>

TableIds == { TableSeq[k] : k \in DOMAIN TableSeq }

\* the instances of an upstream whose vintages are the years of the ids
RegularCatalog ==
    [ k \in DOMAIN TableSeq |-> [ id |-> TableSeq[k], vintage |-> TableSeq[k].year ] ]

\* the instances of an upstream that lists a subject table and an instance whose
\* vintage is not the year of its id
OddCatalog ==
    << [ id |-> MkId("ACSSDT1Y", "2021", "S0101"), vintage |-> "2021" ],
       [ id |-> MkId("ACSDT5Y", "2020", "B01001"), vintage |-> "2021" ],
       [ id |-> MkId("ACSDT5Y", "2021", "B01001"), vintage |-> "2021" ] >>

BareId == MkId("", "", "B01001")

\* an upstream whose search lists an instance under its bare code
BareCatalog == << [ id |-> BareId, vintage |-> "2021" ] >>

\* the upstreams of the runs that search
SearchCatalogs == { RegularCatalog, BareCatalog }
InvalidId == MkId("INVALID", "", "TABLE.ID")

\* values of input.tableId (NoId: not supplied)
TableIdInputs == { NoId, BareId, TableSeq[1], InvalidId }


DatasetInputs == { "", "acs/acs1" }
YearInputs == { "", "2021", "2018" }

----------------------------------------------------------------------------
(* maxItems: <<>> is undefined/null, <<n>> the number n *)

\* Number(process.env.FREE_MAX_ITEMS ?? 100): the cap of a non-paying user, set low
\* so that a run can go past it
FREE_MAX_ITEMS == 2
PAID_MAX_ITEMS == 1000000

\* values of input.maxItems: absent, 0..MaxCap, and one over the limit of a paying user
MaxItemsInputs == { <<>> } \cup { <<n>> : n \in 0..MaxCap } \cup { << PAID_MAX_ITEMS + 1 >> }

\* truthiness of a maxItems value: undefined, null and 0 are falsy
Truthy(m) == m # <<>> /\ m[1] # 0

\* mutant: the cap of a non-paying user is the maxItems of the input
EffectiveMaxItemsNoTier(maxItems, isPayingUser) == maxItems

\* main: the cap after the tier of the user is applied
EffectiveMaxItems(maxItems, isPayingUser) ==
    IF ~isPayingUser
    THEN IF maxItems = <<>> THEN << FREE_MAX_ITEMS >>
         ELSE IF maxItems[1] > FREE_MAX_ITEMS THEN << FREE_MAX_ITEMS >>
         ELSE maxItems
    ELSE maxItems

\* main: a paying user asking for more than 1,000,000 items is refused
MaxItemsTooLarge(maxItems, isPayingUser) ==
    isPayingUser /\ Truthy(maxItems) /\ maxItems[1] > PAID_MAX_ITEMS

\* `maxItems && n >= maxItems`
CapReached(maxItems, n) == Truthy(maxItems) /\ n >= maxItems[1]

----------------------------------------------------------------------------
(* Strings of the search: a string is the sequence of its characters *)

s_income == << "i", "n", "c", "o", "m", "e" >>
s_employment == << "e", "m", "p", "l", "o", "y", "m", "e", "n", "t" >>
s_industry == << "i", "n", "d", "u", "s", "t", "r", "y" >>
s_occupation == << "o", "c", "c", "u", "p", "a", "t", "i", "o", "n" >>
s_business == << "b", "u", "s", "i", "n", "e", "s", "s" >>
s_economic == << "e", "c", "o", "n", "o", "m", "i", "c" >>
s_economics == << "e", "c", "o", "n", "o", "m", "i", "c", "s" >>
s_population == << "p", "o", "p", "u", "l", "a", "t", "i", "o", "n" >>
s_age == << "a", "g", "e" >>
s_sex == << "s", "e", "x" >>
s_race == << "r", "a", "c", "e" >>
s_ethnicity == << "e", "t", "h", "n", "i", "c", "i", "t", "y" >>
s_demographic == << "d", "e", "m", "o", "g", "r", "a", "p", "h", "i", "c" >>
s_demographics == << "d", "e", "m", "o", "g", "r", "a", "p", "h", "i", "c", "s" >>
s_socioeconomic == << "s", "o", "c", "i", "o", "e", "c", "o", "n", "o", "m", "i", "c" >>
s_social == << "s", "o", "c", "i", "a", "l" >>
s_poverty == << "p", "o", "v", "e", "r", "t", "y" >>
s_education == << "e", "d", "u", "c", "a", "t", "i", "o", "n" >>
s_family == << "f", "a", "m", "i", "l", "y" >>
s_household == << "h", "o", "u", "s", "e", "h", "o", "l", "d" >>
s_marital_status == << "m", "a", "r", "i", "t", "a", "l", " ", "s", "t", "a", "t", "u", "s" >>
s_statistic == << "s", "t", "a", "t", "i", "s", "t", "i", "c" >>
s_statistics == << "s", "t", "a", "t", "i", "s", "t", "i", "c", "s" >>
s_populations == << "p", "o", "p", "u", "l", "a", "t", "i", "o", "n", "s" >>
s_incomes == << "i", "n", "c", "o", "m", "e", "s" >>
s_employments == << "e", "m", "p", "l", "o", "y", "m", "e", "n", "t", "s" >>
s_housing == << "h", "o", "u", "s", "i", "n", "g" >>
s_housings == << "h", "o", "u", "s", "i", "n", "g", "s" >>
s_educations == << "e", "d", "u", "c", "a", "t", "i", "o", "n", "s" >>

\* the query of the Economic test with a capital and a trailing blank
s_Economic_ == << "E", "c", "o", "n", "o", "m", "i", "c", " " >>

UpperCase ==
    << "A", "B", "C", "D", "E", "F", "G", "H", "I", "J", "K", "L", "M",
       "N", "O", "P", "Q", "R", "S", "T", "U", "V", "W", "X", "Y", "Z" >>
LowerCase ==
    << "a", "b", "c", "d", "e", "f", "g", "h", "i", "j", "k", "l", "m",
       "n", "o", "p", "q", "r", "s", "t", "u", "v", "w", "x", "y", "z" >>

\* String.prototype.toLowerCase
toLowerCase(str) ==
    [ k \in DOMAIN str |->
        IF \E u \in DOMAIN UpperCase : UpperCase[u] = str[k]
        THEN LowerCase[CHOOSE u \in DOMAIN UpperCase : UpperCase[u] = str[k]]
        ELSE str[k] ]

\* String.prototype.trim
RECURSIVE trimStart(_)
trimStart(str) == IF str # << >> /\ Head(str) = " " THEN trimStart(Tail(str)) ELSE str
RECURSIVE trimEnd(_)
trimEnd(str) ==
    IF str # << >> /\ str[Len(str)] = " " THEN trimEnd(SubSeq(str, 1, Len(str) - 1)) ELSE str
trim(str) == trimEnd(trimStart(str))

\* str.endsWith(c) for a single character
endsWith(str, c) == str # << >> /\ str[Len(str)] = c

\* array.includes(x)
includes(array, x) == \E k \in DOMAIN array : array[k] = x

\* Array.from(new Set(array)): the first occurrence of each element, in order
RECURSIVE unique(_, _)
unique(array, acc) ==
    IF array = << >> THEN acc
    ELSE unique(Tail(array), IF includes(acc, Head(array)) THEN acc ELSE Append(acc, Head(array)))

broadQueryMap ==
    [ q \in { s_economics, s_economic, s_demographics, s_demographic, s_socioeconomic, s_social } |->
        CASE q = s_economics -> << s_income, s_employment, s_industry, s_occupation, s_business, s_economic >>
          [] q = s_economic -> << s_income, s_employment, s_industry, s_occupation, s_business >>
          [] q = s_demographics -> << s_population, s_age, s_sex, s_race, s_ethnicity, s_demographic >>
          [] q = s_demographic -> << s_population, s_age, s_sex, s_race, s_ethnicity >>
          [] q = s_socioeconomic -> << s_income, s_poverty, s_education, s_employment, s_occupation >>
          [] OTHER -> << s_population, s_family, s_household, s_marital_status, s_education >> ]

\* expandBroadQueries: the sub-terms of a broad topic, else the query alone
expandBroadQueries(query) ==
    LET lowerQuery == trim(toLowerCase(query))
    IN  IF lowerQuery \in DOMAIN broadQueryMap THEN broadQueryMap[lowerQuery] ELSE << query >>

pluralToSingular ==
    [ q \in { s_economics, s_demographics, s_statistics, s_populations, s_incomes, s_employments, s_housings, s_educations } |->
        CASE q = s_economics -> s_economic
          [] q = s_demographics -> s_demographic
          [] q = s_statistics -> s_statistic
          [] q = s_populations -> s_population
          [] q = s_incomes -> s_income
          [] q = s_employments -> s_employment
          [] q = s_housings -> s_housing
          [] OTHER -> s_education ]

singularToPlural ==
    [ q \in { s_economic, s_demographic, s_statistic } |->
        CASE q = s_economic -> s_economics
          [] q = s_demographic -> s_demographics
          [] OTHER -> s_statistics ]

\* mutant: the query is kept in front of the sub-terms of a broad topic
normalizeSearchQueryKeepsQuery(query) ==
    IF Len(expandBroadQueries(query)) > 1
    THEN << query >> \o expandBroadQueries(query)
    ELSE << query >>

\* normalizeSearchQuery: the terms searchCensusData sends for a query
normalizeSearchQuery(query) ==
    LET expanded == expandBroadQueries(query)
        lowerQuery == toLowerCase(query)
        v1 == << query >>
        v2 == IF lowerQuery \in DOMAIN pluralToSingular
              THEN Append(v1, pluralToSingular[lowerQuery]) ELSE v1
        v3 == IF lowerQuery \in DOMAIN singularToPlural
              THEN Append(v2, singularToPlural[lowerQuery]) ELSE v2
        v4 == IF /\ Len(query) > 3
                 /\ endsWith(lowerQuery, "s")
                 /\ ~includes(v3, SubSeq(query, 1, Len(query) - 1))
              THEN Append(v3, SubSeq(query, 1, Len(query) - 1)) ELSE v3
    IN  IF Len(expanded) > 1 THEN expanded ELSE unique(v4, << >>)

\* values of input.searchQuery ("": not supplied)
SearchQueryInputs == { << >>, s_population }

\* the queries fetchAllSearchResults is called with when it is run by itself
FetchQueries == { s_population, s_economics, s_incomes, s_Economic_ }

----------------------------------------------------------------------------
(* Identifiers, years and dataset codes as strings of characters *)

\* the characters of every string the identifiers and the filters are made of
CharsOf ==
    ("" :> <<  >>)
    @@ ("ACSDT1Y" :> << "A", "C", "S", "D", "T", "1", "Y" >>)
    @@ ("ACSDT5Y" :> << "A", "C", "S", "D", "T", "5", "Y" >>)
    @@ ("ACSSDT1Y" :> << "A", "C", "S", "S", "D", "T", "1", "Y" >>)
    @@ ("ACSSDT5Y" :> << "A", "C", "S", "S", "D", "T", "5", "Y" >>)
    @@ ("DECENNIAL" :> << "D", "E", "C", "E", "N", "N", "I", "A", "L" >>)
    @@ ("DECENNIALPL" :> << "D", "E", "C", "E", "N", "N", "I", "A", "L", "P", "L" >>)
    @@ ("DECENNIALDP" :> << "D", "E", "C", "E", "N", "N", "I", "A", "L", "D", "P" >>)
    @@ ("DECENNIALSF1" :> << "D", "E", "C", "E", "N", "N", "I", "A", "L", "S", "F", "1" >>)
    @@ ("DECENNIALSF2" :> << "D", "E", "C", "E", "N", "N", "I", "A", "L", "S", "F", "2" >>)
    @@ ("DECENNIALSF3" :> << "D", "E", "C", "E", "N", "N", "I", "A", "L", "S", "F", "3" >>)
    @@ ("DECENNIALSF4" :> << "D", "E", "C", "E", "N", "N", "I", "A", "L", "S", "F", "4" >>)
    @@ ("INVALID" :> << "I", "N", "V", "A", "L", "I", "D" >>)
    @@ ("2018" :> << "2", "0", "1", "8" >>)
    @@ ("2019" :> << "2", "0", "1", "9" >>)
    @@ ("2020" :> << "2", "0", "2", "0" >>)
    @@ ("2021" :> << "2", "0", "2", "1" >>)
    @@ ("2022" :> << "2", "0", "2", "2" >>)
    @@ ("2023" :> << "2", "0", "2", "3" >>)
    @@ ("B01001" :> << "B", "0", "1", "0", "0", "1" >>)
    @@ ("B19013" :> << "B", "1", "9", "0", "1", "3" >>)
    @@ ("S0101" :> << "S", "0", "1", "0", "1" >>)
    @@ ("TABLE.ID" :> << "T", "A", "B", "L", "E", ".", "I", "D" >>)
    @@ ("acs/acs1" :> << "a", "c", "s", "/", "a", "c", "s", "1" >>)
    @@ ("acs/acs5" :> << "a", "c", "s", "/", "a", "c", "s", "5" >>)
    @@ ("acs1" :> << "a", "c", "s", "1" >>)
    @@ ("acs5" :> << "a", "c", "s", "5" >>)
    @@ ("dec" :> << "d", "e", "c" >>)

Digits == { "0", "1", "2", "3", "4", "5", "6", "7", "8", "9" }

\* String.prototype.toUpperCase
toUpperCase(str) ==
    [ k \in DOMAIN str |->
        IF \E u \in DOMAIN LowerCase : LowerCase[u] = str[k]
        THEN UpperCase[CHOOSE u \in DOMAIN LowerCase : LowerCase[u] = str[k]]
        ELSE str[k] ]

\* str.includes(sub) for strings
strIncludes(str, sub) ==
    \E k \in 0..(Len(str) - Len(sub)) : SubSeq(str, k + 1, k + Len(sub)) = sub

\* the string an identifier stands for
idString(id) ==
    IF includesDot(id)
    THEN CharsOf[id.prefix] \o CharsOf[id.year] \o << "." >> \o CharsOf[id.code]
    ELSE CharsOf[id.code]

\* the positions where /(\d{4})\./ matches
yearMatches(str) ==
    { k \in 1..(Len(str) - 4) :
        /\ \A d \in 0..3 : str[k + d] \in Digits
        /\ str[k + 4] = "." }

\* str.match(/(\d{4})\./)?.[1]: the group of the leftmost match, << >> without a match
matchYear(str) ==
    IF yearMatches(str) = {} THEN << >>
    ELSE LET k == CHOOSE m \in yearMatches(str) : \A n \in yearMatches(str) : m <= n
         IN  SubSeq(str, k, k + 3)

----------------------------------------------------------------------------
(* findFullTableId *)

datasetPrefixMap ==
    [ d \in { "acs/acs1", "acs/acs5", "acs/acs1/subject", "acs/acs5/subject",
              "dec/pl", "dec/dp", "dec/sf1", "dec/sf2", "dec/sf3", "dec/sf4" } |->
        CASE d = "acs/acs1" -> << "ACSDT1Y" >>
          [] d = "acs/acs5" -> << "ACSDT5Y" >>
          [] d = "acs/acs1/subject" -> << "ACSSDT1Y" >>
          [] d = "acs/acs5/subject" -> << "ACSSDT5Y" >>
          [] d = "dec/pl" -> << "DECENNIALPL" >>
          [] d = "dec/dp" -> << "DECENNIALDP" >>
          [] d = "dec/sf1" -> << "DECENNIALSF1" >>
          [] d = "dec/sf2" -> << "DECENNIALSF2" >>
          [] d = "dec/sf3" -> << "DECENNIALSF3" >>
          [] OTHER -> << "DECENNIALSF4" >> ]

\* datasetFilter.includes(s), for the dataset codes that are not keys of the map
datasetIncludes(d, s) ==
    CASE s = "acs1" -> d \in { "acs/acs1/profile" }
      [] s = "acs5" -> d \in { "acs/acs5/profile" }
      [] s = "dec" -> d \in { "dec/cd" }
      [] OTHER -> FALSE

\* the dataset prefixes to try, in order
resolverDatasets(datasetFilter) ==
    IF datasetFilter = "" THEN << "ACSDT1Y", "ACSDT5Y" >>
    ELSE IF datasetFilter \in DOMAIN datasetPrefixMap THEN datasetPrefixMap[datasetFilter]
    ELSE IF datasetIncludes(datasetFilter, "acs1") THEN << "ACSDT1Y" >>
    ELSE IF datasetIncludes(datasetFilter, "acs5") THEN << "ACSDT5Y" >>
    ELSE IF datasetIncludes(datasetFilter, "dec") THEN << "DECENNIALPL", "DECENNIALDP" >>
    ELSE << "ACSDT1Y", "ACSDT5Y" >>

recentYears == << "2023", "2022", "2021", "2020", "2019" >>

\* mutant: the year filter is put in front and left in the list
resolverYearsNoFilter(yearFilter) ==
    IF yearFilter = "" THEN recentYears ELSE << yearFilter >> \o recentYears

\* the years to try, in order: the year filter first, then the others
resolverYears(yearFilter) ==
    IF yearFilter = "" THEN recentYears
    ELSE << yearFilter >> \o SelectSeq(recentYears, LAMBDA y : y # yearFilter)

\* the candidates of the two nested loops, in probe order
probeSequence(baseTableId, datasetFilter, yearFilter) ==
    LET ds == resolverDatasets(datasetFilter)
        ys == resolverYears(yearFilter)
    IN  [ k \in 1..(Len(ds) * Len(ys)) |->
            MkId(ds[((k - 1) \div Len(ys)) + 1], ys[((k - 1) % Len(ys)) + 1], baseTableId.code) ]

----------------------------------------------------------------------------
(* Records pushed to the sink *)

MAX_ITEM_SIZE == 9 * 1024 * 1024

\* bytes of ,"dataOmitted":"Data field omitted due to size limit (exceeds 9 MB)"
DataOmittedBytes == 68
\* bytes of ,"variablesOmitted":"Variables field omitted due to size limit"
VariablesOmittedBytes == 63
\* bytes of ,"dataSizeMB":"d.dd" without the digits
DataSizeMBKeyBytes == 16
\* the smallest size that (size / 1024 / 1024).toFixed(2) renders with two integer digits
TenMB == 10480518

\* number of characters of (outputSize / 1024 / 1024).toFixed(2), for sizes under 100 MB
dataSizeMBLen(outputSize) == IF outputSize >= TenMB THEN 5 ELSE 4

\* bytes of everything but data and variables in a mapped record: a plain record, and
\* one that is over the budget by itself
BaseBytes == 2 + 165
BaseBytesChoices == { BaseBytes, MAX_ITEM_SIZE + 1 }
\* bytes of ,"variables":{"measures":[],"dimensions":[]} and of larger variables:
\* 1.5 MB, and the whole budget
VarBytes == 1 + 43
VarBytesChoices == { VarBytes, 1572864, MAX_ITEM_SIZE }
\* bytes of ,"data":[] and of a data payload of 8.5 MB
DataBytes == 1 + 9
DataBytesChoices == { DataBytes, 8912896 }

\* title is a string ("": absent), year and vintage are strings of characters
\* (<< >>: absent), url is the id the url is built on (NoId: absent)
NoRec ==
    [ kind |-> "none", error |-> "", src |-> NoId, tableId |-> NoId, entityId |-> NoId,
      errorMessage |-> "", title |-> "", year |-> << >>, vintage |-> << >>,
      url |-> NoId, scrapedTimestamp |-> FALSE,
      base |-> 0, dataBytes |-> 0, varBytes |-> 0,
      data |-> FALSE, variables |-> FALSE, dataOmitted |-> FALSE,
      variablesOmitted |-> FALSE, dataSizeMB |-> 0, metaOk |-> FALSE, dataOk |-> FALSE ]

\* Buffer.byteLength(JSON.stringify(record), 'utf8') of a table record
byteLength(r) ==
    r.base
    + (IF r.data THEN r.dataBytes ELSE 0)
    + (IF r.variables THEN r.varBytes ELSE 0)
    + (IF r.dataSizeMB > 0 THEN DataSizeMBKeyBytes + r.dataSizeMB ELSE 0)
    + (IF r.dataOmitted THEN DataOmittedBytes ELSE 0)
    + (IF r.variablesOmitted THEN VariablesOmittedBytes ELSE 0)

----------------------------------------------------------------------------
(* The upstream answers and the functions of api.ts and mapper.ts *)

\* messages of the errors fetchTableMetadata throws: a non-2xx answer, a failed request
MetadataErrors == { "Metadata request failed with status", "fetch failed" }

\* the title of a table, and the title the upstream gives to a table without one
TableTitle == "Sex by Age"
UntitledTable == "Untitled Table"
UnavailableTable == "Unavailable Table"

\* what metadataContent.measures can be: an array, absent, or something that is
\* neither (an object)
MeasuresShapes == { "array", "absent", "object" }

\* the content of a metadata body: title ("": none), dataset.year and dataset.vintage
\* ("": none) and measures
MetadataContents ==
    [ title : { "", UntitledTable, TableTitle }, dsYear : { "", "2019" },
      dsVintage : { "", "2020" }, measures : MeasuresShapes ]

\* the content of a regular body: a title, no dataset, measures in an array
RegularContent ==
    [ title |-> TableTitle, dsYear |-> "", dsVintage |-> "", measures |-> "array" ]

\* an answer of the metadata endpoint of a regular upstream; id is the table id the
\* body names (NoId: none), base and varBytes the sizes its content maps to
MetadataResponses ==
    { [ ok |-> FALSE, message |-> m, id |-> NoId, content |-> RegularContent,
        base |-> 0, varBytes |-> 0 ] : m \in MetadataErrors }
    \cup { [ ok |-> TRUE, message |-> "", id |-> x, content |-> RegularContent,
             base |-> b, varBytes |-> v ] :
             x \in { NoId } \cup TableIds, b \in BaseBytesChoices, v \in VarBytesChoices }

\* a 2xx answer of the metadata endpoint with any content
AnyMetadataResponses ==
    { [ ok |-> TRUE, message |-> "", id |-> x, content |-> c, base |-> b, varBytes |-> v ] :
        x \in { NoId, TableSeq[3] }, c \in MetadataContents,
        b \in BaseBytesChoices, v \in VarBytesChoices }

\* a || b for strings of characters
orElse(a, b) == IF a # << >> THEN a ELSE b

\* an answer of the data endpoint; bytes is the serialised size of its data
DataResponses ==
    { [ ok |-> FALSE, bytes |-> 0 ] }
    \cup { [ ok |-> TRUE, bytes |-> b ] : b \in DataBytesChoices }

\* how many irregular things an answer carries
metadataFaults(response) ==
    IF ~response.ok THEN 1
    ELSE (IF response.id # NoId THEN 1 ELSE 0)
         + (IF response.base # BaseBytes THEN 1 ELSE 0)
         + (IF response.varBytes # VarBytes THEN 1 ELSE 0)

dataFaults(response) == IF ~response.ok \/ response.bytes # DataBytes THEN 1 ELSE 0

\* fetchTableMetadata: throws on a failed request, else the table named by the body,
\* falling back to the requested id
fetchTableMetadata(tableId, response) ==
    IF ~response.ok
    THEN [ thrown |-> TRUE, message |-> response.message, id |-> NoId,
           title |-> "", year |-> << >>, vintage |-> << >>, url |-> NoId,
           content |-> response.content, base |-> 0, varBytes |-> 0 ]
    ELSE LET actualTableId == IF response.id # NoId THEN response.id ELSE tableId
             extractedYear == matchYear(idString(actualTableId))
             dsYear == CharsOf[response.content.dsYear]
             dsVintage == CharsOf[response.content.dsVintage]
         IN  [ thrown |-> FALSE, message |-> "",
               id |-> actualTableId,
               title |-> response.content.title,
               year |-> orElse(dsYear, orElse(extractedYear, dsVintage)),
               vintage |-> orElse(dsVintage, orElse(dsYear, extractedYear)),
               url |-> actualTableId,
               content |-> response.content,
               base |-> response.base, varBytes |-> response.varBytes ]

\* fetchTableData(...).catch(() => null): null when the request fails, else the data,
\* which is never falsy (response.data || data.data || [])
fetchTableData(tableId, response) ==
    IF ~response.ok
    THEN [ isNull |-> TRUE, id |-> tableId, bytes |-> 0 ]
    ELSE [ isNull |-> FALSE, id |-> tableId, bytes |-> response.bytes ]

\* { id: requested, ...metadata, data: data?.data || metadata?.data, metadata: ... }
\* the spread of metadata comes after id and metadata always carries an id
mergedId(requested, metadata) == metadata.id

\* mutant: the merge falls back to the metadata object when there is no data
mergeTableDataFallback(requested, metadata, data) ==
    [ isNull |-> FALSE,
      id |-> mergedId(requested, metadata),
      title |-> metadata.title, year |-> metadata.year, vintage |-> metadata.vintage,
      url |-> metadata.url, content |-> metadata.content,
      hasData |-> TRUE,
      dataBytes |-> IF data.isNull THEN metadata.varBytes ELSE data.bytes,
      base |-> metadata.base,
      varBytes |-> metadata.varBytes ]

\* the merged RawCensusTable; the metadata object has no data field
mergeTable(requested, metadata, data) ==
    [ isNull |-> FALSE,
      id |-> mergedId(requested, metadata),
      title |-> metadata.title, year |-> metadata.year, vintage |-> metadata.vintage,
      url |-> metadata.url, content |-> metadata.content,
      hasData |-> ~data.isNull,
      dataBytes |-> data.bytes,
      base |-> metadata.base,
      varBytes |-> metadata.varBytes ]

\* no table: mapCensusTable called with null or undefined
NoTable ==
    [ isNull |-> TRUE, id |-> NoId, title |-> "", year |-> << >>, vintage |-> << >>,
      url |-> NoId, content |-> RegularContent, hasData |-> FALSE, dataBytes |-> 0,
      base |-> 0, varBytes |-> 0 ]

MissingIdMessage == "Invalid table data: missing required property (id)"
NotAFunctionMessage == "measures.map is not a function"

\* mutant: the title of the record is the title of the table
finalTitleNoFallback(table) == table.title

\* the title of the record: table.title, else the title of the content, else
\* Unavailable Table, which also replaces Untitled Table
finalTitle(table) ==
    LET rawTitle == IF table.title # "" THEN table.title
                    ELSE IF table.content.title # "" THEN table.content.title
                    ELSE UnavailableTable
    IN  IF rawTitle = UntitledTable THEN UnavailableTable ELSE rawTitle

\* mutant: the year is not taken from the id
finalYearNoExtraction(table) ==
    LET dsYear == CharsOf[table.content.dsYear]
        dsVintage == CharsOf[table.content.dsVintage]
    IN  orElse(table.year, orElse(dsYear, dsVintage))

\* the year of the record
finalYear(table) ==
    LET extractedYear == IF table.year = << >> THEN matchYear(idString(table.id))
                         ELSE << >>
        dsYear == CharsOf[table.content.dsYear]
        dsVintage == CharsOf[table.content.dsVintage]
    IN  orElse(table.year, orElse(dsYear, orElse(extractedYear, dsVintage)))

\* the vintage of the record
finalVintage(table) ==
    LET extractedYear == IF table.year = << >> THEN matchYear(idString(table.id))
                         ELSE << >>
        dsYear == CharsOf[table.content.dsYear]
        dsVintage == CharsOf[table.content.dsVintage]
    IN  orElse(table.vintage, orElse(dsVintage, orElse(dsYear, extractedYear)))

\* mapCensusTable: throws when there is no table or the table has no id, and when
\* measures is there and has no map method; variables is always built
mapCensusTable(table) ==
    IF table.isNull \/ table.id = NoId
    THEN [ thrown |-> TRUE, message |-> MissingIdMessage, record |-> NoRec ]
    ELSE IF table.content.measures = "object"
    THEN [ thrown |-> TRUE, message |-> NotAFunctionMessage, record |-> NoRec ]
    ELSE [ thrown |-> FALSE, message |-> "",
           record |->
               [ NoRec EXCEPT !.kind = "table", !.tableId = table.id,
                              !.title = finalTitle(table),
                              !.year = finalYear(table),
                              !.vintage = finalVintage(table),
                              !.url = IF table.url # NoId THEN table.url ELSE table.id,
                              !.scrapedTimestamp = TRUE,
                              !.base = table.base, !.dataBytes = table.dataBytes,
                              !.varBytes = table.varBytes, !.data = table.hasData,
                              !.variables = TRUE ] ]

----------------------------------------------------------------------------
(* The size guard of main *)

\* delete withoutData.data; set dataSizeMB and dataOmitted
withoutData(outputTable) ==
    [ outputTable EXCEPT !.data = FALSE,
                         !.dataSizeMB = dataSizeMBLen(byteLength(outputTable)),
                         !.dataOmitted = TRUE ]

\* mutant: the second step of the guard also drops the url
withoutVariablesLosesUrl(record) ==
    [ record EXCEPT !.variables = FALSE, !.variablesOmitted = TRUE, !.url = NoId ]

\* delete withoutData.variables; set variablesOmitted
withoutVariables(record) ==
    [ record EXCEPT !.variables = FALSE, !.variablesOmitted = TRUE ]

\* the record after the first degradation step
guardStep1(outputTable) == withoutData(outputTable)

\* the record after the second step, taken only when the first is still over budget
guardStep2(outputTable) ==
    IF byteLength(guardStep1(outputTable)) > MAX_ITEM_SIZE
    THEN withoutVariables(guardStep1(outputTable))
    ELSE guardStep1(outputTable)

\* the error record of a table that stays over the budget; its message reports the
\* original size and the size after both removals, kept here as the sizes of the parts
tooLargeError(outputTable, tableId, entityId) ==
    [ NoRec EXCEPT !.kind = "error", !.error = "Table too large to process",
                   !.tableId = tableId, !.entityId = entityId,
                   !.errorMessage = "Data item too large",
                   !.scrapedTimestamp = TRUE,
                   !.base = outputTable.base, !.dataBytes = outputTable.dataBytes,
                   !.varBytes = outputTable.varBytes ]

\* mutant: the catch block loses the message of the error
failedErrorNoMessage(tableId, entityId, message) ==
    [ NoRec EXCEPT !.kind = "error", !.error = "Failed to process table",
                   !.tableId = tableId, !.entityId = entityId,
                   !.scrapedTimestamp = TRUE ]

\* the error record of the catch block
failedError(tableId, entityId, message) ==
    [ NoRec EXCEPT !.kind = "error", !.error = "Failed to process table",
                   !.tableId = tableId, !.entityId = entityId,
                   !.errorMessage = message,
                   !.scrapedTimestamp = TRUE ]

\* mutant: the guard removes variables first and data second
sizeGuardVariablesFirst(outputTable, tableId, entityId) ==
    LET w1 == withoutVariables(outputTable)
        w2 == IF byteLength(w1) > MAX_ITEM_SIZE THEN withoutData(w1) ELSE w1
    IN  IF byteLength(outputTable) > MAX_ITEM_SIZE
        THEN IF byteLength(w2) > MAX_ITEM_SIZE
             THEN tooLargeError(outputTable, tableId, entityId)
             ELSE w2
        ELSE outputTable

\* mutant: the guard pushes the degraded record without measuring it again
sizeGuardNoFinalCheck(outputTable, tableId, entityId) ==
    IF byteLength(outputTable) > MAX_ITEM_SIZE
    THEN guardStep2(outputTable)
    ELSE outputTable

\* what the guard hands to pushData for a mapped record
sizeGuard(outputTable, tableId, entityId) ==
    IF byteLength(outputTable) > MAX_ITEM_SIZE
    THEN IF byteLength(guardStep2(outputTable)) > MAX_ITEM_SIZE
         THEN tooLargeError(outputTable, tableId, entityId)
         ELSE guardStep2(outputTable)
    ELSE outputTable

\* the sink may refuse a table record; it takes every error record
sinkMayReject(record) == record.kind = "table"

PushErrorMessage == "pushData failed"

----------------------------------------------------------------------------
(* State *)

VARIABLES
    pc,                 \* where main is: "start", "resolve", "table", "search", "searching",
                        \* "batches", "inbatch", "done", "exited", "crashed"; from the
                        \* merged table on: "map", "mapped", "mapthrown", "pushed"
    searchQuery,        \* input.searchQuery
    tableId,            \* input.tableId
    maxItems,           \* input.maxItems
    dataset,            \* input.dataset
    year,               \* input.year
    catalog,            \* the table instances the upstream search holds
    rawTable,           \* the merged table mapCensusTable is called with
    isPayingUser,       \* main: isPayingUser
    effectiveMaxItems,  \* the cap of the run
    probeIdx,           \* findFullTableId: index of the next candidate to probe
    probes,             \* history: the candidates probed so far and how each answered
    fullTableId,        \* main, tableId path: the id that is fetched
    allEntities,        \* fetchAllSearchResults: allEntities, then main: entities
    currentPage,        \* fetchAllSearchResults: currentPage
    hasMore,            \* fetchAllSearchResults: hasMore
    onEntityCalls,      \* history: the entities onEntity has been called with
    termIdx,            \* searchCensusData: index of the next query variation (0: no call)
    pageEntities,       \* searchCensusData: allEntities; fetchAllSearchResults: entities
    sent,               \* history: the terms requested by the current or last call
    listed,             \* history: the ids the upstream listed in answer to that call
    i,                  \* main: index of the batch loop (0-based)
    tasks,              \* the concurrent tasks of the batch in flight
    processedTableIds,  \* main: processedTableIds
    totalFetched,       \* main: totalFetched
    totalPushed,        \* main: totalPushed
    sink,               \* the records the dataset holds, in push order
    faults              \* how many irregular answers the environment has given

vars ==
    << pc, searchQuery, tableId, maxItems, dataset, year, catalog, rawTable,
       effectiveMaxItems,
       probeIdx, probes,
       fullTableId, allEntities, currentPage, hasMore, onEntityCalls, termIdx,
       pageEntities, sent, listed, isPayingUser, i, tasks,
       processedTableIds, totalFetched, totalPushed, sink, faults >>

inputVars ==
    << searchQuery, tableId, maxItems, dataset, year, catalog, rawTable, isPayingUser,
       effectiveMaxItems >>
searchVars ==
    << allEntities, currentPage, hasMore, onEntityCalls, termIdx, pageEntities, sent,
       listed >>
countVars == << totalFetched, totalPushed >>

\* a task whose requests are in flight
fetchingTask(id) == [ entity |-> id, st |-> "fetching", out |-> NoRec ]
\* a task that returned without a request (duplicate or id-less entity)
skippedTask(id) == [ entity |-> id, st |-> "skipped", out |-> NoRec ]

Init ==
    /\ pc = "start"
    /\ searchQuery = << >>
    /\ tableId = NoId
    /\ maxItems = <<>>
    /\ dataset = ""
    /\ year = ""
    /\ catalog = RegularCatalog
    /\ rawTable = NoTable
    /\ effectiveMaxItems = <<>>
    /\ probeIdx = 0
    /\ probes = << >>
    /\ fullTableId = NoId
    /\ allEntities = <<>>
    /\ currentPage = 0
    /\ hasMore = TRUE
    /\ onEntityCalls = << >>
    /\ termIdx = 0
    /\ pageEntities = << >>
    /\ sent = << >>
    /\ listed = {}
    /\ isPayingUser = TRUE
    /\ i = 0
    /\ tasks = <<>>
    /\ processedTableIds = {}
    /\ totalFetched = 0
    /\ totalPushed = 0
    /\ sink = <<>>
    /\ faults = 0

----------------------------------------------------------------------------
(* main: input, validation and the tier of the user *)

\* mutant: main without the test `!searchQuery && !tableId`
StartNoValidation ==
    /\ pc = "start"
    /\ \E sq \in SearchQueryInputs, tid \in TableIdInputs, mi \in MaxItemsInputs,
          paying \in BOOLEAN, ds \in DatasetInputs, yr \in YearInputs :
        /\ searchQuery' = sq
        /\ tableId' = tid
        /\ isPayingUser' = paying
        /\ maxItems' = mi
        /\ catalog' \in IF tid = NoId /\ sq # << >> THEN SearchCatalogs ELSE { catalog }
        /\ rawTable' = rawTable
        /\ effectiveMaxItems' = EffectiveMaxItems(mi, paying)
        /\ IF MaxItemsTooLarge(mi, paying)
           THEN /\ pc' = "exited"
                /\ UNCHANGED << dataset, year, probeIdx, fullTableId, tasks >>
           ELSE IF tid # NoId
           THEN IF ~includesDot(tid)
                THEN /\ pc' = "resolve"
                     /\ dataset' = ds
                     /\ year' = yr
                     /\ probeIdx' = 1
                     /\ UNCHANGED << fullTableId, tasks >>
                ELSE /\ pc' = "table"
                     /\ fullTableId' = tid
                     /\ tasks' = << fetchingTask(tid) >>
                     /\ UNCHANGED << dataset, year, probeIdx >>
           ELSE /\ pc' = "search"
                /\ UNCHANGED << dataset, year, probeIdx, fullTableId, tasks >>
    /\ UNCHANGED << probes, searchVars, i, processedTableIds, countVars, sink, faults >>

\* mutant: the branch on searchQuery comes first, the tableId is used without it
StartSearchFirst ==
    /\ pc = "start"
    /\ \E sq \in SearchQueryInputs, tid \in TableIdInputs, mi \in MaxItemsInputs,
          paying \in BOOLEAN, ds \in DatasetInputs, yr \in YearInputs :
        /\ searchQuery' = sq
        /\ tableId' = tid
        /\ isPayingUser' = paying
        /\ maxItems' = mi
        /\ catalog' \in IF tid = NoId /\ sq # << >> THEN SearchCatalogs ELSE { catalog }
        /\ rawTable' = rawTable
        /\ effectiveMaxItems' = EffectiveMaxItems(mi, paying)
        /\ IF (sq = << >> /\ tid = NoId) \/ MaxItemsTooLarge(mi, paying)
           THEN /\ pc' = "exited"
                /\ UNCHANGED << dataset, year, probeIdx, fullTableId, tasks >>
           ELSE IF tid # NoId /\ sq = << >>
           THEN IF ~includesDot(tid)
                THEN /\ pc' = "resolve"
                     /\ dataset' = ds
                     /\ year' = yr
                     /\ probeIdx' = 1
                     /\ UNCHANGED << fullTableId, tasks >>
                ELSE /\ pc' = "table"
                     /\ fullTableId' = tid
                     /\ tasks' = << fetchingTask(tid) >>
                     /\ UNCHANGED << dataset, year, probeIdx >>
           ELSE /\ pc' = "search"
                /\ UNCHANGED << dataset, year, probeIdx, fullTableId, tasks >>
    /\ UNCHANGED << probes, searchVars, i, processedTableIds, countVars, sink, faults >>

\* main up to the branch on tableId / searchQuery; the runs that search are the runs
\* without a dataset and a year filter
Start ==
    /\ pc = "start"
    /\ \E sq \in SearchQueryInputs, tid \in TableIdInputs, mi \in MaxItemsInputs,
          paying \in BOOLEAN, ds \in DatasetInputs, yr \in YearInputs :
        /\ searchQuery' = sq
        /\ tableId' = tid
        /\ isPayingUser' = paying
        /\ maxItems' = mi
        /\ catalog' \in IF tid = NoId /\ sq # << >> THEN SearchCatalogs ELSE { catalog }
        /\ rawTable' = rawTable
        /\ effectiveMaxItems' = EffectiveMaxItems(mi, paying)
        /\ IF (sq = << >> /\ tid = NoId) \/ MaxItemsTooLarge(mi, paying)
           THEN /\ pc' = "exited"
                /\ UNCHANGED << dataset, year, probeIdx, fullTableId, tasks >>
           ELSE IF tid # NoId
           THEN IF ~includesDot(tid)
                THEN /\ pc' = "resolve"
                     /\ dataset' = ds
                     /\ year' = yr
                     /\ probeIdx' = 1
                     /\ UNCHANGED << fullTableId, tasks >>
                ELSE /\ pc' = "table"
                     /\ fullTableId' = tid
                     /\ tasks' = << fetchingTask(tid) >>
                     /\ UNCHANGED << dataset, year, probeIdx >>
           ELSE /\ pc' = "search"
                /\ UNCHANGED << dataset, year, probeIdx, fullTableId, tasks >>
    /\ UNCHANGED << probes, searchVars, i, processedTableIds, countVars, sink, faults >>

----------------------------------------------------------------------------
(* findFullTableId, called by the tableId path for a base table id *)

\* mutant: main fetches the base id although the resolver returned a candidate
ProbeResolvesKeepsBase ==
    /\ pc = "resolve"
    /\ LET seq == probeSequence(tableId, dataset, year) IN
        /\ probeIdx <= Len(seq)
        /\ fullTableId' = tableId
        /\ tasks' = << fetchingTask(tableId) >>
        /\ probes' = Append(probes, [ id |-> seq[probeIdx], ok |-> TRUE ])
    /\ pc' = "table"
    /\ UNCHANGED << inputVars, probeIdx, searchVars, i, processedTableIds, countVars, sink, faults >>

\* the probe answers 2xx with metadata content: the candidate is returned
ProbeResolves ==
    /\ pc = "resolve"
    /\ LET seq == probeSequence(tableId, dataset, year) IN
        /\ probeIdx <= Len(seq)
        /\ fullTableId' = seq[probeIdx]
        /\ tasks' = << fetchingTask(seq[probeIdx]) >>
        /\ probes' = Append(probes, [ id |-> seq[probeIdx], ok |-> TRUE ])
    /\ pc' = "table"
    /\ UNCHANGED << inputVars, probeIdx, searchVars, i, processedTableIds, countVars, sink, faults >>

\* mutant: the resolver returns null at the first probe that does not resolve
ProbeSkipsGivesUp ==
    /\ pc = "resolve"
    /\ LET seq == probeSequence(tableId, dataset, year) IN
        /\ probeIdx <= Len(seq)
        /\ probeIdx' = probeIdx + 1
        /\ probes' = Append(probes, [ id |-> seq[probeIdx], ok |-> FALSE ])
        /\ fullTableId' = tableId
        /\ tasks' = << fetchingTask(tableId) >>
        /\ pc' = "table"
    /\ UNCHANGED << inputVars, searchVars, i, processedTableIds, countVars, sink, faults >>

\* mutant: when the resolver returns null main ends the run without a fetch
ProbeSkipsEndsRun ==
    /\ pc = "resolve"
    /\ LET seq == probeSequence(tableId, dataset, year) IN
        /\ probeIdx <= Len(seq)
        /\ probeIdx' = probeIdx + 1
        /\ probes' = Append(probes, [ id |-> seq[probeIdx], ok |-> FALSE ])
        /\ IF probeIdx = Len(seq)
           THEN /\ fullTableId' = tableId
                /\ pc' = "done"
                /\ UNCHANGED tasks
           ELSE UNCHANGED << fullTableId, tasks, pc >>
    /\ UNCHANGED << inputVars, searchVars, i, processedTableIds, countVars, sink, faults >>

\* the probe throws, answers non-2xx or carries no metadata content: next candidate;
\* after the last candidate the resolver returns null and main goes on with the base id
ProbeSkips ==
    /\ pc = "resolve"
    /\ LET seq == probeSequence(tableId, dataset, year) IN
        /\ probeIdx <= Len(seq)
        /\ probeIdx' = probeIdx + 1
        /\ probes' = Append(probes, [ id |-> seq[probeIdx], ok |-> FALSE ])
        /\ IF probeIdx = Len(seq)
           THEN /\ fullTableId' = tableId
                /\ tasks' = << fetchingTask(tableId) >>
                /\ pc' = "table"
           ELSE UNCHANGED << fullTableId, tasks, pc >>
    /\ UNCHANGED << inputVars, searchVars, i, processedTableIds, countVars, sink, faults >>

----------------------------------------------------------------------------
(* One task: the tableId path of main, or one entity of processBatch *)

\* the tableId path runs a single task
direct == pc = "table"

\* the tableId of the error record the catch block builds
catchTableId(task) == IF direct THEN tableId ELSE task.entity
\* mutant: the error record of processBatch carries no entityId
catchEntityIdAbsent(task) == NoId

\* its entityId: entity.id in processBatch, absent in the tableId path
catchEntityId(task) == IF direct THEN NoId ELSE task.entity

\* history of the task in the record it pushes: the id it requested and how the
\* two requests settled
stamp(record, requested, metadataResponse, dataResponse) ==
    [ record EXCEPT !.src = requested, !.metaOk = metadataResponse.ok,
                    !.dataOk = dataResponse.ok ]

\* mutant: the catch block logs the error and pushes nothing
processEntityNoErrorRecord(task, metadataResponse, dataResponse) ==
    LET requested == task.entity
        metadata == fetchTableMetadata(requested, metadataResponse)
        data == fetchTableData(requested, dataResponse)
        mapped == mapCensusTable(mergeTable(requested, metadata, data))
    IN  IF metadata.thrown \/ mapped.thrown
        THEN [ entity |-> requested, st |-> "done", out |-> NoRec ]
        ELSE [ entity |-> requested, st |-> "pushing",
               out |-> stamp(sizeGuard(mapped.record, requested, catchEntityId(task)),
                             requested, metadataResponse, dataResponse) ]

\* the try block from the settled Promise.all to the push it issues, and the catch
\* block when fetchTableMetadata or mapCensusTable throws
processEntity(task, metadataResponse, dataResponse) ==
    LET requested == task.entity
        data == fetchTableData(requested, dataResponse)
        settled(metadata, mapped) ==
            LET thrown == IF metadata.thrown THEN metadata.message ELSE mapped.message
            IN  IF metadata.thrown \/ mapped.thrown
                THEN [ entity |-> requested, st |-> "errpushing",
                       out |-> stamp(failedError(catchTableId(task), catchEntityId(task),
                                                 thrown),
                                     requested, metadataResponse, dataResponse) ]
                ELSE [ entity |-> requested, st |-> "pushing",
                       out |-> stamp(sizeGuard(mapped.record, requested, catchEntityId(task)),
                                     requested, metadataResponse, dataResponse) ]
        \* const outputTable = mapCensusTable(table), evaluated once
        merged(metadata) ==
            CHOOSE t \in { settled(metadata, mapped) :
                             mapped \in { mapCensusTable(mergeTable(requested, metadata, data)) } } :
                TRUE
    \* const [metadata, data] = await Promise.all(...), evaluated once
    IN  CHOOSE t \in { merged(metadata) :
                         metadata \in { fetchTableMetadata(requested, metadataResponse) } } :
            TRUE

\* mutant: no try block around the requests, a failed metadata request ends the run
FetchSettlesUncaught(k) ==
    /\ pc \in { "table", "inbatch" }
    /\ k \in DOMAIN tasks
    /\ tasks[k].st = "fetching"
    /\ \E mr \in MetadataResponses, dr \in DataResponses :
        /\ faults + metadataFaults(mr) + dataFaults(dr) <= MaxFaults
        /\ faults' = faults + metadataFaults(mr) + dataFaults(dr)
        /\ IF mr.ok
           THEN /\ tasks' = [ tasks EXCEPT ![k] = processEntity(tasks[k], mr, dr) ]
                /\ pc' = pc
           ELSE /\ tasks' = tasks
                /\ pc' = "crashed"
    /\ UNCHANGED << inputVars, probeIdx, probes, fullTableId, searchVars, i,
                    processedTableIds, countVars, sink >>

\* both requests of task k have settled; the task runs up to its pushData (the
\* tableId path counts the table in totalFetched once it is mapped)
FetchSettles(k) ==
    /\ pc \in { "table", "inbatch" }
    /\ k \in DOMAIN tasks
    /\ tasks[k].st = "fetching"
    /\ \E mr \in MetadataResponses, dr \in DataResponses :
        /\ faults + metadataFaults(mr) + dataFaults(dr) <= MaxFaults
        /\ faults' = faults + metadataFaults(mr) + dataFaults(dr)
        /\ tasks' = [ tasks EXCEPT ![k] = processEntity(tasks[k], mr, dr) ]
        /\ totalFetched' = IF direct /\ processEntity(tasks[k], mr, dr).st = "pushing"
                           THEN totalFetched + 1
                           ELSE totalFetched
    /\ UNCHANGED << pc, inputVars, probeIdx, probes, fullTableId, searchVars, i,
                    processedTableIds, totalPushed, sink >>

\* pushData of task k resolves: the record is in the dataset, totalPushed++;
\* in the tableId path main then runs to its end
PushAccepted(k) ==
    /\ pc \in { "table", "inbatch" }
    /\ k \in DOMAIN tasks
    /\ tasks[k].st \in { "pushing", "errpushing" }
    /\ sink' = Append(sink, tasks[k].out)
    /\ totalPushed' = totalPushed + 1
    /\ tasks' = [ tasks EXCEPT ![k] = [ @ EXCEPT !.st = "done", !.out = NoRec ] ]
    /\ pc' = IF direct THEN "done" ELSE pc
    /\ UNCHANGED << inputVars, probeIdx, probes, fullTableId, searchVars, i,
                    processedTableIds, totalFetched, faults >>

\* mutant: a rejected pushData ends the task, no catch block pushes an error record
PushRejectedNoCatch(k) ==
    /\ pc \in { "table", "inbatch" }
    /\ k \in DOMAIN tasks
    /\ tasks[k].st = "pushing"
    /\ sinkMayReject(tasks[k].out)
    /\ faults < MaxFaults
    /\ faults' = faults + 1
    /\ tasks' = [ tasks EXCEPT ![k] = [ @ EXCEPT !.st = "done", !.out = NoRec ] ]
    /\ UNCHANGED << pc, inputVars, probeIdx, probes, fullTableId, searchVars, i,
                    processedTableIds, countVars, sink >>

\* pushData of task k rejects inside the try block: the catch block builds the
\* error record and pushes it
PushRejected(k) ==
    /\ pc \in { "table", "inbatch" }
    /\ k \in DOMAIN tasks
    /\ tasks[k].st = "pushing"
    /\ sinkMayReject(tasks[k].out)
    /\ faults < MaxFaults
    /\ faults' = faults + 1
    /\ tasks' = [ tasks EXCEPT ![k] =
                    [ @ EXCEPT !.st = "errpushing",
                               !.out = [ failedError(catchTableId(tasks[k]),
                                                     catchEntityId(tasks[k]),
                                                     PushErrorMessage)
                                         EXCEPT !.src = tasks[k].out.src,
                                                !.metaOk = tasks[k].out.metaOk,
                                                !.dataOk = tasks[k].out.dataOk ] ] ]
    /\ UNCHANGED << pc, inputVars, probeIdx, probes, fullTableId, searchVars, i,
                    processedTableIds, countVars, sink >>

----------------------------------------------------------------------------
(* fetchAllSearchResults *)

\* the instances of the catalog whose index is in S, in the order the upstream
\* lists them
RECURSIVE tablesOf(_, _)
tablesOf(S, k) ==
    IF k > Len(catalog) THEN << >>
    ELSE (IF k \in S THEN << catalog[k] >> ELSE << >>) \o tablesOf(S, k + 1)

\* what one request of the search endpoint can list: table instances, no id twice,
\* in the order of the upstream
SearchPages == { tablesOf(S, 1) : S \in SUBSET (DOMAIN catalog) }

\* mutant: the for loop does not test maxItems
collectPageNoCap(all, page, cap) == [ all |-> all \o page, cut |-> FALSE ]

\* mutant: the for loop stops one entity after the cap
RECURSIVE collectPageLateCap(_, _, _)
collectPageLateCap(all, page, cap) ==
    IF page = << >> THEN [ all |-> all, cut |-> FALSE ]
    ELSE IF Truthy(cap) /\ Len(all) > cap[1] THEN [ all |-> all, cut |-> TRUE ]
    ELSE collectPageLateCap(Append(all, Head(page)), Tail(page), cap)

\* the for loop over the entities of one page
RECURSIVE collectPage(_, _, _)
collectPage(all, page, cap) ==
    IF page = << >> THEN [ all |-> all, cut |-> FALSE ]
    ELSE IF CapReached(cap, Len(all)) THEN [ all |-> all, cut |-> TRUE ]
    ELSE collectPage(Append(all, Head(page)), Tail(page), cap)

\* an answer of the search endpoint to the request for one term: non-2xx, or the
\* table instances it lists
TermResponses ==
    { [ ok |-> FALSE, tables |-> << >> ] }
    \cup { [ ok |-> TRUE, tables |-> t ] : t \in SearchPages }

\* the dataset filter: the id in upper case has to contain the prefix of each
\* dataset family the filter names
passesDatasetFilter(datasetFilter, realTableId) ==
    \/ datasetFilter = ""
    \/ LET filter == CharsOf[datasetFilter]
           instanceId == toUpperCase(idString(realTableId))
       IN  /\ ~(/\ strIncludes(filter, CharsOf["acs1"])
                /\ ~strIncludes(instanceId, CharsOf["ACSDT1Y"])
                /\ ~strIncludes(instanceId, CharsOf["ACSSDT1Y"]))
           /\ ~(/\ strIncludes(filter, CharsOf["acs5"])
                /\ ~strIncludes(instanceId, CharsOf["ACSDT5Y"])
                /\ ~strIncludes(instanceId, CharsOf["ACSSDT5Y"]))
           /\ ~(/\ strIncludes(filter, CharsOf["dec"])
                /\ ~strIncludes(instanceId, CharsOf["DECENNIAL"]))

\* the year filter: the vintage of the instance or the year in its id is the year
passesYearFilter(yearFilter, instance) ==
    \/ yearFilter = ""
    \/ CharsOf[instance.vintage] = CharsOf[yearFilter]
    \/ matchYear(idString(instance.id)) = CharsOf[yearFilter]

\* mutant: the instances are collected without the filters
collectInstancesNoFilter(entities, instances, datasetFilter, yearFilter) ==
    entities \o SelectSeq([ k \in DOMAIN instances |-> instances[k].id ],
                          LAMBDA id : ~includes(entities, id))

\* the loops over tables and instances of one answer: an instance without id, with
\* an id in seenTableIds, or refused by a filter is passed over
RECURSIVE collectInstances(_, _, _, _)
collectInstances(entities, instances, datasetFilter, yearFilter) ==
    IF instances = << >> THEN entities
    ELSE LET instance == Head(instances)
             realTableId == instance.id
         IN  collectInstances(
                 IF \/ realTableId = NoId
                    \/ includes(entities, realTableId)
                    \/ ~passesDatasetFilter(datasetFilter, realTableId)
                    \/ ~passesYearFilter(yearFilter, instance)
                 THEN entities
                 ELSE Append(entities, realTableId),
                 Tail(instances), datasetFilter, yearFilter)

\* mutant: onEntity is called again for the entities of the earlier pages
onEntityArgsAll(all, got) == got.all

\* the entities onEntity is called with while a page is collected: those pushed
onEntityArgs(all, got) == SubSeq(got.all, Len(all) + 1, Len(got.all))

\* the test at the head of the while loop
searchCapReached == CapReached(effectiveMaxItems, Len(allEntities))

\* head of the while loop: maxItems reached, break
SearchCapBreak ==
    /\ pc = "search"
    /\ searchCapReached
    /\ pc' = "batches"
    /\ UNCHANGED << inputVars, probeIdx, probes, fullTableId, searchVars, i, tasks,
                    processedTableIds, countVars, sink, faults >>

\* fetchAllSearchResults calls searchCensusData for the current page
SearchCall ==
    /\ pc = "search"
    /\ ~searchCapReached
    /\ pc' = "searching"
    /\ termIdx' = 1
    /\ pageEntities' = << >>
    /\ sent' = << >>
    /\ listed' = {}
    /\ UNCHANGED << inputVars, probeIdx, probes, fullTableId, allEntities, currentPage,
                    hasMore, onEntityCalls, i, tasks, processedTableIds, countVars,
                    sink, faults >>

\* searchCensusData: the request for the next query variation is answered; a
\* non-2xx answer is passed over, the instances of a 2xx answer are collected; the
\* upstream honours `from` and holds finitely many results: from page MaxPages on
\* an answer lists nothing
TermAnswers ==
    /\ pc = "searching"
    /\ termIdx <= Len(normalizeSearchQuery(searchQuery))
    /\ \E response \in TermResponses :
        /\ currentPage >= MaxPages => response.tables = << >>
        /\ pageEntities' = IF response.ok
                           THEN collectInstances(pageEntities, response.tables,
                                                 dataset, year)
                           ELSE pageEntities
        /\ listed' = listed \cup { response.tables[k].id : k \in DOMAIN response.tables }
    /\ sent' = Append(sent, normalizeSearchQuery(searchQuery)[termIdx])
    /\ termIdx' = termIdx + 1
    /\ UNCHANGED << pc, inputVars, probeIdx, probes, fullTableId, allEntities,
                    currentPage, hasMore, onEntityCalls, i, tasks, processedTableIds,
                    countVars, sink, faults >>

\* searchCensusData throws (a request fails or a body does not parse): the error
\* passes through fetchAllSearchResults and is rethrown by main
SearchThrows ==
    /\ pc = "searching"
    /\ termIdx <= Len(normalizeSearchQuery(searchQuery))
    /\ pc' = "crashed"
    /\ UNCHANGED << inputVars, probeIdx, probes, fullTableId, searchVars, i, tasks,
                    processedTableIds, countVars, sink, faults >>

\* mutant: searchCensusData returns as soon as it holds as many entities as the cap
SearchPageEarly ==
    /\ pc = "searching"
    /\ \/ termIdx > Len(normalizeSearchQuery(searchQuery))
       \/ CapReached(effectiveMaxItems, Len(pageEntities))
    /\ LET page == pageEntities IN
        IF page = << >>
        THEN /\ hasMore' = FALSE
             /\ pc' = "batches"
             /\ UNCHANGED << allEntities, currentPage, onEntityCalls >>
        ELSE LET got == collectPage(allEntities, page, effectiveMaxItems)
                 more == ~got.cut /\ ~(Len(page) < PAGE_SIZE)
             IN  /\ allEntities' = got.all
                 /\ onEntityCalls' = onEntityCalls \o onEntityArgs(allEntities, got)
                 /\ hasMore' = more
                 /\ currentPage' = currentPage + 1
                 /\ pc' = IF more THEN "search" ELSE "batches"
    /\ termIdx' = 0
    /\ UNCHANGED << inputVars, probeIdx, probes, fullTableId, pageEntities, sent, listed, i,
                    tasks,
                    processedTableIds, countVars, sink, faults >>

\* mutant: a page without entities does not end the while loop
SearchPageIgnoresEmpty ==
    /\ pc = "searching"
    /\ termIdx > Len(normalizeSearchQuery(searchQuery))
    /\ LET page == pageEntities IN
        IF page = << >>
        THEN /\ pc' = "search"
             /\ UNCHANGED << allEntities, currentPage, onEntityCalls, hasMore >>
        ELSE LET got == collectPage(allEntities, page, effectiveMaxItems)
                 more == ~got.cut /\ ~(Len(page) < PAGE_SIZE)
             IN  /\ allEntities' = got.all
                 /\ onEntityCalls' = onEntityCalls \o onEntityArgs(allEntities, got)
                 /\ hasMore' = more
                 /\ currentPage' = currentPage + 1
                 /\ pc' = IF more THEN "search" ELSE "batches"
    /\ termIdx' = 0
    /\ UNCHANGED << inputVars, probeIdx, probes, fullTableId, pageEntities, sent, listed, i,
                    tasks,
                    processedTableIds, countVars, sink, faults >>

\* mutant: for a query that is not a broad topic searchCensusData returns as soon as
\* it holds PAGE_SIZE entities
SearchPageEnough ==
    /\ pc = "searching"
    /\ \/ termIdx > Len(normalizeSearchQuery(searchQuery))
       \/ /\ ~(Len(expandBroadQueries(searchQuery)) > 1)
          /\ termIdx > 1
          /\ Len(pageEntities) >= PAGE_SIZE
    /\ LET page == pageEntities IN
        IF page = << >>
        THEN /\ hasMore' = FALSE
             /\ pc' = "batches"
             /\ UNCHANGED << allEntities, currentPage, onEntityCalls >>
        ELSE LET got == collectPage(allEntities, page, effectiveMaxItems)
                 more == ~got.cut /\ ~(Len(page) < PAGE_SIZE)
             IN  /\ allEntities' = got.all
                 /\ onEntityCalls' = onEntityCalls \o onEntityArgs(allEntities, got)
                 /\ hasMore' = more
                 /\ currentPage' = currentPage + 1
                 /\ pc' = IF more THEN "search" ELSE "batches"
    /\ termIdx' = 0
    /\ UNCHANGED << inputVars, probeIdx, probes, fullTableId, pageEntities, sent, listed, i,
                    tasks,
                    processedTableIds, countVars, sink, faults >>

\* searchCensusData returns; the rest of the iteration of the while loop
SearchPage ==
    /\ pc = "searching"
    /\ termIdx > Len(normalizeSearchQuery(searchQuery))
    /\ LET page == pageEntities IN
        IF page = << >>
        THEN /\ hasMore' = FALSE
             /\ pc' = "batches"
             /\ UNCHANGED << allEntities, currentPage, onEntityCalls >>
        ELSE LET got == collectPage(allEntities, page, effectiveMaxItems)
                 more == ~got.cut /\ ~(Len(page) < PAGE_SIZE)
             IN  /\ allEntities' = got.all
                 /\ onEntityCalls' = onEntityCalls \o onEntityArgs(allEntities, got)
                 /\ hasMore' = more
                 /\ currentPage' = currentPage + 1
                 /\ pc' = IF more THEN "search" ELSE "batches"
    /\ termIdx' = 0
    /\ UNCHANGED << inputVars, probeIdx, probes, fullTableId, pageEntities, sent, listed, i,
                    tasks,
                    processedTableIds, countVars, sink, faults >>

----------------------------------------------------------------------------
(* main: the batch loop and processBatch *)

\* mutant: no test of processedTableIds, every entity with an id is fetched
RECURSIVE startTasksNoDedup(_, _, _)
startTasksNoDedup(batch, seen, acc) ==
    IF batch = << >> THEN [ tasks |-> acc, seen |-> seen ]
    ELSE LET id == Head(batch) IN
         IF id = NoId
         THEN startTasksNoDedup(Tail(batch), seen, Append(acc, skippedTask(id)))
         ELSE startTasksNoDedup(Tail(batch), seen \cup { id }, Append(acc, fetchingTask(id)))

\* mutant: the id is added to the seen set only when the task has returned, the
\* tasks of one batch test the set as it was when the batch started
RECURSIVE startTasksLateAdd(_, _, _)
startTasksLateAdd(batch, seen, acc) ==
    IF batch = << >>
    THEN [ tasks |-> acc,
           seen |-> seen \cup { acc[k].entity : k \in { j \in DOMAIN acc : acc[j].st = "fetching" } } ]
    ELSE LET id == Head(batch) IN
         IF id = NoId \/ id \in seen
         THEN startTasksLateAdd(Tail(batch), seen, Append(acc, skippedTask(id)))
         ELSE startTasksLateAdd(Tail(batch), seen, Append(acc, fetchingTask(id)))

\* batch.map(async entity => ...): each task runs to its first await, in order
RECURSIVE startTasks(_, _, _)
startTasks(batch, seen, acc) ==
    IF batch = << >> THEN [ tasks |-> acc, seen |-> seen ]
    ELSE LET id == Head(batch) IN
         IF id = NoId \/ id \in seen
         THEN startTasks(Tail(batch), seen, Append(acc, skippedTask(id)))
         ELSE startTasks(Tail(batch), seen \cup { id }, Append(acc, fetchingTask(id)))

Min(a, b) == IF a < b THEN a ELSE b

\* entities.slice(i, i + BATCH_SIZE)
batchAt(entities, start) ==
    SubSeq(entities, start + 1, Min(start + BATCH_SIZE, Len(entities)))

\* the test at the head of the batch loop
batchCapReached == CapReached(effectiveMaxItems, totalPushed)

\* head of the for loop: leave, or start the next batch
BatchLoop ==
    /\ pc = "batches"
    /\ IF ~(i < Len(allEntities)) \/ batchCapReached
       THEN /\ pc' = "done"
            /\ UNCHANGED << tasks, processedTableIds, totalFetched >>
       ELSE LET started == startTasks(batchAt(allEntities, i), processedTableIds, << >>)
            IN  /\ tasks' = started.tasks
                /\ processedTableIds' = started.seen
                /\ totalFetched' = totalFetched
                       + Cardinality({ k \in DOMAIN started.tasks :
                                         started.tasks[k].st = "fetching" })
                /\ pc' = "inbatch"
    /\ UNCHANGED << inputVars, probeIdx, probes, fullTableId, searchVars, i, totalPushed, sink, faults >>

\* mutant: the loop goes on as soon as one task has returned
JoinBatchNoWait ==
    /\ pc = "inbatch"
    /\ \E k \in DOMAIN tasks : tasks[k].st \in { "skipped", "done" }
    /\ i' = i + BATCH_SIZE
    /\ tasks' = << >>
    /\ pc' = "batches"
    /\ UNCHANGED << inputVars, probeIdx, probes, fullTableId, searchVars,
                    processedTableIds, countVars, sink, faults >>

\* await Promise.all(batchPromises) resolves: every task has returned
JoinBatch ==
    /\ pc = "inbatch"
    /\ \A k \in DOMAIN tasks : tasks[k].st \in { "skipped", "done" }
    /\ i' = i + BATCH_SIZE
    /\ tasks' = << >>
    /\ pc' = "batches"
    /\ UNCHANGED << inputVars, probeIdx, probes, fullTableId, searchVars,
                    processedTableIds, countVars, sink, faults >>

----------------------------------------------------------------------------

Next ==
    \/ Start
    \/ ProbeResolves
    \/ ProbeSkips
    \/ \E k \in 1..BATCH_SIZE : FetchSettles(k)
    \/ \E k \in 1..BATCH_SIZE : PushAccepted(k)
    \/ \E k \in 1..BATCH_SIZE : PushRejected(k)
    \/ SearchCapBreak
    \/ SearchCall
    \/ TermAnswers
    \/ SearchThrows
    \/ SearchPage
    \/ BatchLoop
    \/ JoinBatch

Spec == Init /\ [][Next]_vars

----------------------------------------------------------------------------
(* fetchAllSearchResults by itself: one call, for a query and a cap *)

\* the dataset and year filters of the calls that are made with filters
DatasetFilters == { "", "acs/acs1", "acs/acs5" }
YearFilters == { "", "2021" }

FetchInit ==
    /\ pc = "search"
    /\ \/ /\ searchQuery \in FetchQueries
          /\ dataset = ""
          /\ year = ""
          /\ catalog = RegularCatalog
       \/ /\ searchQuery = s_population
          /\ dataset \in DatasetFilters
          /\ year \in YearFilters
          /\ catalog \in { RegularCatalog, OddCatalog }
    /\ tableId = NoId
    /\ effectiveMaxItems \in { <<>> } \cup { <<n>> : n \in 0..MaxCap }
    /\ maxItems = effectiveMaxItems
    /\ rawTable = NoTable
    /\ probeIdx = 0
    /\ probes = << >>
    /\ fullTableId = NoId
    /\ allEntities = <<>>
    /\ currentPage = 0
    /\ hasMore = TRUE
    /\ onEntityCalls = << >>
    /\ termIdx = 0
    /\ pageEntities = << >>
    /\ sent = << >>
    /\ listed = {}
    /\ isPayingUser = TRUE
    /\ i = 0
    /\ tasks = <<>>
    /\ processedTableIds = {}
    /\ totalFetched = 0
    /\ totalPushed = 0
    /\ sink = <<>>
    /\ faults = 0

FetchNext ==
    \/ SearchCapBreak
    \/ SearchCall
    \/ TermAnswers
    \/ SearchThrows
    \/ SearchPage

\* every request the loop awaits settles, so each step of the loop is taken in the end
FetchSpec ==
    /\ FetchInit
    /\ [][FetchNext]_vars
    /\ WF_vars(SearchCapBreak)
    /\ WF_vars(SearchCall)
    /\ WF_vars(TermAnswers \/ SearchThrows)
    /\ WF_vars(SearchPage)

----------------------------------------------------------------------------
(* The try block of the tableId path from the merged table on: mapCensusTable, *)
(* the size guard and the push, for every table the merge can build           *)

\* the tableId of these runs: one with a year before its dot, one without
MapRequests == { TableSeq[1], InvalidId }

\* the same table without the fields fetchTableMetadata derives
withoutDerived(table) ==
    [ table EXCEPT !.title = "", !.year = << >>, !.vintage = << >>, !.url = NoId ]

\* the tables mapCensusTable is called with: what main merges from the answers for
\* requested, the same tables without the derived fields, without a year or a vintage
\* of their own, or without an id, and no table
RawTables(requested) ==
    LET merged == { mergeTable(requested, fetchTableMetadata(requested, mr),
                               fetchTableData(requested, dr)) :
                      mr \in AnyMetadataResponses, dr \in DataResponses }
    IN  merged
        \cup { withoutDerived(t) : t \in merged }
        \cup { [ t EXCEPT !.year = << >> ] : t \in merged }
        \cup { [ t EXCEPT !.vintage = << >> ] : t \in merged }
        \cup { [ t EXCEPT !.id = NoId ] : t \in merged }
        \cup { NoTable }

MapInit ==
    /\ pc = "map"
    /\ searchQuery = << >>
    /\ tableId \in MapRequests
    /\ fullTableId = tableId
    /\ rawTable \in RawTables(tableId)
    /\ maxItems = <<>>
    /\ dataset = ""
    /\ year = ""
    /\ catalog = RegularCatalog
    /\ effectiveMaxItems = <<>>
    /\ probeIdx = 0
    /\ probes = << >>
    /\ allEntities = <<>>
    /\ currentPage = 0
    /\ hasMore = TRUE
    /\ onEntityCalls = << >>
    /\ termIdx = 0
    /\ pageEntities = << >>
    /\ sent = << >>
    /\ listed = {}
    /\ isPayingUser = TRUE
    /\ i = 0
    /\ tasks = <<>>
    /\ processedTableIds = {}
    /\ totalFetched = 0
    /\ totalPushed = 0
    /\ sink = <<>>
    /\ faults = 0

\* mapCensusTable(table): the record it returns, or the catch block with the error
\* it throws, which pushes the error record
MapTable ==
    /\ pc = "map"
    /\ LET mapped == mapCensusTable(rawTable) IN
        IF mapped.thrown
        THEN /\ pc' = "mapthrown"
             /\ sink' = Append(sink, failedError(tableId, NoId, mapped.message))
             /\ totalPushed' = totalPushed + 1
             /\ UNCHANGED << tasks, totalFetched >>
        ELSE /\ pc' = "mapped"
             /\ tasks' = << [ entity |-> fullTableId, st |-> "pushing", out |-> mapped.record ] >>
             /\ totalFetched' = totalFetched + 1
             /\ UNCHANGED << sink, totalPushed >>
    /\ UNCHANGED << inputVars, probeIdx, probes, fullTableId, searchVars, i,
                    processedTableIds, faults >>

\* the size guard and the pushData it ends with
GuardTable ==
    /\ pc = "mapped"
    /\ sink' = Append(sink, sizeGuard(tasks[1].out, fullTableId, NoId))
    /\ totalPushed' = totalPushed + 1
    /\ pc' = "pushed"
    /\ UNCHANGED << inputVars, probeIdx, probes, fullTableId, searchVars, i, tasks,
                    processedTableIds, totalFetched, faults >>

MapNext ==
    \/ MapTable
    \/ GuardTable

MapSpec == MapInit /\ [][MapNext]_vars

----------------------------------------------------------------------------
(* The batch loop of main by itself, for every list the search can return *)

\* the lists fetchAllSearchResults returns with a cap: a first page, followed by a
\* second one when the first is full, cut at the cap
EntityLists(cap) ==
    LET ids(page) == [ k \in DOMAIN page |-> page[k].id ]
    IN  { collectPage(<< >>,
                      IF Len(p0) >= PAGE_SIZE THEN ids(p0) \o ids(p1) ELSE ids(p0),
                      cap).all : p0 \in SearchPages, p1 \in SearchPages }

BatchInit ==
    /\ pc = "batches"
    /\ searchQuery = s_population
    /\ tableId = NoId
    /\ maxItems \in { <<>>, << MaxCap >> }
    /\ effectiveMaxItems = maxItems
    /\ dataset = ""
    /\ year = ""
    /\ catalog = RegularCatalog
    /\ rawTable = NoTable
    /\ allEntities \in EntityLists(effectiveMaxItems)
    /\ probeIdx = 0
    /\ probes = << >>
    /\ fullTableId = NoId
    /\ currentPage = 0
    /\ hasMore = FALSE
    /\ onEntityCalls = allEntities
    /\ termIdx = 0
    /\ pageEntities = << >>
    /\ sent = << >>
    /\ listed = {}
    /\ isPayingUser = TRUE
    /\ i = 0
    /\ tasks = <<>>
    /\ processedTableIds = {}
    /\ totalFetched = 0
    /\ totalPushed = 0
    /\ sink = <<>>
    /\ faults = 0

BatchNext ==
    \/ BatchLoop
    \/ \E k \in 1..BATCH_SIZE : FetchSettles(k)
    \/ \E k \in 1..BATCH_SIZE : PushAccepted(k)
    \/ \E k \in 1..BATCH_SIZE : PushRejected(k)
    \/ JoinBatch

\* main runs on when it can, and every pair of requests and every pushData settles
BatchSpec ==
    /\ BatchInit
    /\ [][BatchNext]_vars
    /\ WF_vars(BatchLoop)
    /\ WF_vars(JoinBatch)
    /\ \A k \in 1..BATCH_SIZE :
          /\ WF_vars(FetchSettles(k))
          /\ WF_vars(PushAccepted(k) \/ PushRejected(k))

----------------------------------------------------------------------------
(* findFullTableId by itself, for an upstream that holds some instances of B01001 *)

\* instances of the table B01001 an upstream can hold
ResolveUpstream ==
    << [ id |-> MkId("ACSDT1Y", "2021", "B01001"), vintage |-> "2021" ],
       [ id |-> MkId("ACSDT1Y", "2023", "B01001"), vintage |-> "2023" ],
       [ id |-> MkId("ACSDT5Y", "2021", "B01001"), vintage |-> "2021" ],
       [ id |-> MkId("ACSDT5Y", "2018", "B01001"), vintage |-> "2018" ] >>

\* the upstreams of these calls: each holds some of the instances
ResolveCatalogs ==
    { SelectSeq(ResolveUpstream, LAMBDA t : t.id \in S) :
        S \in SUBSET { ResolveUpstream[k].id : k \in DOMAIN ResolveUpstream } }

\* the metadata endpoint answers 2xx with metadata content for the ids it holds
held(id) == \E k \in DOMAIN catalog : catalog[k].id = id

ResolveInit ==
    /\ pc = "resolve"
    /\ searchQuery = << >>
    /\ tableId = BareId
    /\ maxItems = <<>>
    /\ dataset \in DatasetInputs
    /\ year \in YearInputs
    /\ catalog \in ResolveCatalogs
    /\ rawTable = NoTable
    /\ effectiveMaxItems = <<>>
    /\ probeIdx = 1
    /\ probes = << >>
    /\ fullTableId = NoId
    /\ allEntities = <<>>
    /\ currentPage = 0
    /\ hasMore = TRUE
    /\ onEntityCalls = << >>
    /\ termIdx = 0
    /\ pageEntities = << >>
    /\ sent = << >>
    /\ listed = {}
    /\ isPayingUser = TRUE
    /\ i = 0
    /\ tasks = <<>>
    /\ processedTableIds = {}
    /\ totalFetched = 0
    /\ totalPushed = 0
    /\ sink = <<>>
    /\ faults = 0

\* the candidate the next probe asks for
nextCandidate == probeSequence(tableId, dataset, year)[probeIdx]

\* the probe of a candidate the upstream holds
ProbeHeld ==
    /\ pc = "resolve"
    /\ held(nextCandidate)
    /\ ProbeResolves

\* the probe of a candidate the upstream does not hold
ProbeNotHeld ==
    /\ pc = "resolve"
    /\ ~held(nextCandidate)
    /\ ProbeSkips

ResolveNext ==
    \/ ProbeHeld
    \/ ProbeNotHeld

ResolveSpec == ResolveInit /\ [][ResolveNext]_vars

----------------------------------------------------------------------------
(* Properties *)

\* main has taken the search path
searchRun == tableId = NoId /\ pc \notin { "start", "exited" }

\* the records of the dataset
sinkRecords == { sink[k] : k \in DOMAIN sink }

\* the positions of the dataset that hold the record of the task that requested id
recordsOf(id) == { k \in DOMAIN sink : sink[k].src = id }

\* how many entities of allEntities belong to a batch that has been joined
joined == Min(i, Len(allEntities))

\* the mapped record a pushed record comes from, before the size guard touched it
original(r) ==
    [ r EXCEPT !.kind = "table", !.data = r.dataOk, !.variables = TRUE,
               !.dataOmitted = FALSE, !.variablesOmitted = FALSE, !.dataSizeMB = 0 ]

\* a record the size guard has produced or refused
guarded(r) ==
    \/ r.kind = "table"
    \/ r.kind = "error" /\ r.error = "Table too large to process"

\* C1: with a cap N >= 1 the dataset never holds more than N records, and a batch
\* that has started is never cut short: once the loop is back at its head every
\* entity of every started batch has its record
C1_CapNeverExceeded ==
    /\ Truthy(effectiveMaxItems) => Len(sink) <= effectiveMaxItems[1]
    /\ Truthy(effectiveMaxItems) => Len(allEntities) <= effectiveMaxItems[1]
    /\ (searchRun /\ pc \in { "batches", "done" })
           => \A k \in 1..joined : recordsOf(allEntities[k]) # {}

\* C1 witness: a run whose cap is 3 has pushed 3 records in two batches and is done
C1_Witness ==
    /\ pc = "done"
    /\ searchRun
    /\ effectiveMaxItems = << 3 >>
    /\ Len(sink) = 3
    /\ i > BATCH_SIZE

\* C2 (as stated): no two table records of a run carry the same tableId
C2_UniqueTableIds ==
    \A a, b \in DOMAIN sink :
        (a # b /\ sink[a].kind = "table" /\ sink[b].kind = "table")
            => sink[a].tableId # sink[b].tableId

\* C3: in a search run every distinct entity id of a joined batch has exactly one
\* record, table or error, and no id ever has two; a table the guard refuses has
\* its error record
C3_OneRecordPerEntity ==
    searchRun =>
        /\ \A id \in TableIds : Cardinality(recordsOf(id)) <= 1
        /\ pc \in { "batches", "done" }
               => \A k \in 1..joined : Cardinality(recordsOf(allEntities[k])) = 1
        /\ \A r \in sinkRecords : r.kind \in { "table", "error" }

\* C3 witness: a finished search run that met an entity twice and holds the error
\* record of a table that was too large next to another record
C3_Witness ==
    /\ pc = "done"
    /\ searchRun
    /\ \E a, b \in DOMAIN allEntities : a # b /\ allEntities[a] = allEntities[b]
    /\ \E r \in sinkRecords : r.error = "Table too large to process"
    /\ Len(sink) >= 2

C6_DirectMetadataFailure ==
    (tableId # NoId /\ includesDot(tableId)
         /\ ~MaxItemsTooLarge(effectiveMaxItems, isPayingUser)) =>
        /\ pc \in { "table", "done" }
        /\ fullTableId = tableId
        /\ pc = "table" => /\ sink = << >>
                           /\ ENABLED FetchSettles(1) \/ ENABLED PushAccepted(1)
        /\ pc = "done" => Len(sink) = 1
        /\ \A r \in sinkRecords :
               ~r.metaOk => /\ r.kind = "error"
                            /\ r.error = "Failed to process table"
                            /\ r.tableId = tableId
                            /\ r.entityId = NoId
                            /\ r.errorMessage \in MetadataErrors

\* C6 witness: the run for INVALID.TABLE.ID is done with its one error record
C6_Witness ==
    /\ pc = "done"
    /\ tableId = InvalidId
    /\ Len(sink) = 1
    /\ sink[1].kind = "error"
    /\ ~sink[1].metaOk

\* C7 (as stated): in a search run a failed metadata request still ends in a table
\* record, built from the fields of the search entity
C7_SearchMetadataFallback ==
    searchRun => \A r \in sinkRecords : ~r.metaOk => r.kind = "table"

C9_VariablesFirst ==
    \A r \in sinkRecords :
        (r.kind = "table" /\ byteLength(original(r)) > MAX_ITEM_SIZE) =>
            /\ r.variablesOmitted
            /\ ~r.variables
            /\ r.dataOmitted
                   => byteLength(withoutVariables(original(r))) > MAX_ITEM_SIZE

\* C9: the guard leaves a record within the budget alone; from a record over the
\* budget it removes data first (dataOmitted, dataSizeMB), and variables only when
\* the record without data is still over the budget
C9_DataFirst ==
    \A r \in sinkRecords :
        r.kind = "table" =>
            LET o == original(r)
                sizeWithoutData ==
                    o.base + o.varBytes + DataOmittedBytes + DataSizeMBKeyBytes
                    + dataSizeMBLen(byteLength(o))
            IN  IF byteLength(o) > MAX_ITEM_SIZE
                THEN /\ r.dataOmitted
                     /\ ~r.data
                     /\ r.dataSizeMB = dataSizeMBLen(byteLength(o))
                     /\ r.variablesOmitted <=> sizeWithoutData > MAX_ITEM_SIZE
                     /\ r.variables <=> ~r.variablesOmitted
                ELSE /\ ~r.dataOmitted
                     /\ ~r.variablesOmitted
                     /\ r.dataSizeMB = 0
                     /\ r.variables
                     /\ r.data = o.data

\* C9 witness: a table of 1.5 MB of variables and 8.5 MB of data was pushed with its
\* data omitted and its variables in place
C9_Witness ==
    \E r \in sinkRecords :
        /\ r.kind = "table"
        /\ r.dataOmitted
        /\ ~r.variablesOmitted
        /\ r.variables
        /\ r.varBytes = 1572864

\* C10 (as stated): every step of the guard makes the record strictly smaller, and
\* every table record pushed is within the budget
C10_EveryStepShrinks ==
    /\ \A r \in sinkRecords : r.kind = "table" => byteLength(r) <= MAX_ITEM_SIZE
    /\ \A r \in sinkRecords :
           (guarded(r) /\ r.metaOk /\ byteLength(original(r)) > MAX_ITEM_SIZE) =>
               LET o == original(r) IN
               /\ byteLength(guardStep1(o)) < byteLength(o)
               /\ byteLength(guardStep1(o)) > MAX_ITEM_SIZE
                      => byteLength(guardStep2(o)) < byteLength(guardStep1(o))

\* C10: every table record pushed is within the budget; a step of the guard makes
\* the record smaller exactly when the field it drops is larger than the flag fields
\* it adds, so the first step makes a record without data larger
C10_StepShrinksLargeField ==
    /\ \A r \in sinkRecords : r.kind = "table" => byteLength(r) <= MAX_ITEM_SIZE
    /\ \A r \in sinkRecords :
           (guarded(r) /\ r.metaOk /\ byteLength(original(r)) > MAX_ITEM_SIZE) =>
               LET o == original(r)
                   dropped == IF o.data THEN o.dataBytes ELSE 0
                   added == DataOmittedBytes + DataSizeMBKeyBytes
                            + dataSizeMBLen(byteLength(o))
               IN  /\ byteLength(guardStep1(o)) < byteLength(o) <=> dropped > added
                   /\ ~o.data => byteLength(guardStep1(o)) > byteLength(o)
                   /\ byteLength(guardStep1(o)) > MAX_ITEM_SIZE
                          => (byteLength(guardStep2(o)) < byteLength(guardStep1(o))
                                  <=> o.varBytes > VariablesOmittedBytes)

\* C10 witness: a record over the budget whose data request had failed went through
\* both steps and was pushed without variables
C10_Witness ==
    \E r \in sinkRecords :
        /\ r.kind = "table"
        /\ r.metaOk
        /\ ~r.dataOk
        /\ r.dataOmitted
        /\ r.variablesOmitted

\* main has called findFullTableId for a tableId without a dot
resolverRun == tableId # NoId /\ ~includesDot(tableId) /\ pc \notin { "start", "exited" }

\* C11: with a year filter Y every probe of another year comes after the probe of
\* year Y for the same dataset prefix, and no prefix is probed with year Y twice
C11_YearFilterFirst ==
    (resolverRun /\ year # "") =>
        \A k \in DOMAIN probes :
            /\ probes[k].id.year # year
                   => \E j \in 1..(k - 1) : /\ probes[j].id.prefix = probes[k].id.prefix
                                            /\ probes[j].id.year = year
            /\ \A j \in DOMAIN probes :
                   (j # k /\ probes[j].id.prefix = probes[k].id.prefix
                          /\ probes[j].id.year = year)
                       => probes[k].id.year # year

\* C11 witness: with year filter 2021 and no dataset filter every candidate of both
\* prefixes has been probed
C11_Witness ==
    /\ resolverRun
    /\ year = "2021"
    /\ dataset = ""
    /\ Len(probes) = 10
    /\ probes[6].id = MkId("ACSDT5Y", "2021", "B01001")

\* C12: the probes follow the probe sequence; the first candidate that resolves is
\* returned and nothing is probed after it; null is returned (main goes on with the
\* base id) exactly when every candidate was probed and none resolved; a probe that
\* does not resolve is skipped and never ends the run
C12_FirstResolvingCandidate ==
    resolverRun =>
        LET seq == probeSequence(tableId, dataset, year) IN
        /\ Len(probes) <= Len(seq)
        /\ \A k \in DOMAIN probes : probes[k].id = seq[k]
        /\ \A k \in DOMAIN probes : probes[k].ok => k = Len(probes)
        /\ pc # "crashed"
        /\ pc = "resolve" => /\ \A k \in DOMAIN probes : ~probes[k].ok
                             /\ Len(probes) < Len(seq)
                             /\ fullTableId = NoId
        /\ pc # "resolve" =>
               /\ probes # << >>
               /\ IF probes[Len(probes)].ok
                  THEN fullTableId = probes[Len(probes)].id
                  ELSE Len(probes) = Len(seq) /\ fullTableId = tableId

\* C12 witness: the third candidate resolved after two probes that did not, and the
\* run fetched it
C12_Witness ==
    /\ resolverRun
    /\ pc = "done"
    /\ Len(probes) = 3
    /\ probes[3].ok
    /\ sink[1].src = probes[3].id

\* C13: for a tableId without a dot nothing is fetched while the resolver runs, and
\* the fetch that follows is for the id the resolver ended with; with dataset
\* acs/acs1 and year 2021 the first candidate is ACSDT1Y2021.B01001, and it is the
\* id fetched when the upstream recognises it
C13_ResolveBeforeFetch ==
    resolverRun =>
        /\ pc = "resolve" => (tasks = << >> /\ sink = << >> /\ totalFetched = 0 /\ faults = 0)
        /\ tasks # << >> =>
               /\ probes # << >>
               /\ probes[Len(probes)].ok => tasks[1].entity = probes[Len(probes)].id
               /\ ~probes[Len(probes)].ok => tasks[1].entity = tableId
        /\ (dataset = "acs/acs1" /\ year = "2021" /\ probes # << >>) =>
               /\ probes[1].id = MkId("ACSDT1Y", "2021", tableId.code)
               /\ probes[1].ok =>
                      /\ fullTableId = probes[1].id
                      /\ \A k \in DOMAIN tasks : tasks[k].entity = probes[1].id
                      /\ \A r \in sinkRecords : r.src = probes[1].id

\* C13 witness: B01001 with dataset acs/acs1 and year 2021 resolved at the first
\* probe and the table ACSDT1Y2021.B01001 was pushed
C13_Witness ==
    /\ tableId = BareId
    /\ dataset = "acs/acs1"
    /\ year = "2021"
    /\ probes = << [ id |-> MkId("ACSDT1Y", "2021", "B01001"), ok |-> TRUE ] >>
    /\ pc = "done"
    /\ sink[1].kind = "table"
    /\ sink[1].src = MkId("ACSDT1Y", "2021", "B01001")

\* the query is a broad topic: expandBroadQueries gives more than one term
broadQuery == Len(expandBroadQueries(searchQuery)) > 1

\* seq is the beginning of full
isPrefix(seq, full) == Len(seq) <= Len(full) /\ \A k \in DOMAIN seq : seq[k] = full[k]

C15_BroadQuerySendsEveryTerm ==
    broadQuery =>
        /\ (pc = "searching" /\ termIdx <= Len(expandBroadQueries(searchQuery)))
               => ENABLED TermAnswers /\ ~ENABLED SearchPage
        /\ (termIdx = 0 /\ currentPage > 0) => sent = expandBroadQueries(searchQuery)
        /\ Truthy(effectiveMaxItems) => Len(allEntities) <= effectiveMaxItems[1]

\* C15 witness: economics with cap 2: all six terms were requested, the call found 3
\* entities, and 2 entities are returned
C15_Witness ==
    /\ searchQuery = s_economics
    /\ effectiveMaxItems = << 2 >>
    /\ pc = "batches"
    /\ Len(sent) = 6
    /\ Len(pageEntities) = 3
    /\ Len(allEntities) = 2

\* C16 (as stated): the list fetchAllSearchResults returns holds no id twice
C16_NoDuplicateEntities ==
    \A a, b \in DOMAIN allEntities : a # b => allEntities[a] # allEntities[b]

\* C17: with a cap N >= 1 the list never holds more than N entities; it grows only at
\* its end, by the entities of the page in the order of the page; and onEntity has
\* been called once for each entity of the list, in the order of the list
C17_CapOrderAndCallback ==
    /\ [](/\ Truthy(effectiveMaxItems) => Len(allEntities) <= effectiveMaxItems[1]
          /\ onEntityCalls = allEntities)
    /\ [][ allEntities' # allEntities =>
              \E n \in 1..Len(pageEntities) :
                  allEntities' = allEntities \o SubSeq(pageEntities, 1, n) ]_vars

\* C17 witness: with cap 2 a page of 3 entities was cut: the list holds the first 2,
\* and onEntity was called for those 2
C17_Witness ==
    /\ effectiveMaxItems = << 2 >>
    /\ pc = "batches"
    /\ Len(pageEntities) = 3
    /\ allEntities = SubSeq(pageEntities, 1, 2)
    /\ onEntityCalls = allEntities
    /\ ~hasMore

C19_FreeUserCap ==
    ~isPayingUser => Len(sink) <= FREE_MAX_ITEMS

\* C20: when neither searchQuery nor tableId is supplied the run has ended after the
\* validation: no probe, no search request, no metadata or data request, no record, and
\* no further step is possible
C20_EmptyInputEndsRun ==
    (pc # "start" /\ searchQuery = << >> /\ tableId = NoId) =>
        /\ pc = "exited"
        /\ probes = << >>
        /\ sent = << >>
        /\ tasks = << >>
        /\ totalFetched = 0
        /\ faults = 0
        /\ sink = << >>
        /\ ~ENABLED Next

\* C20 witness: the run of a non-paying user with neither input has exited
C20_Witness ==
    /\ pc = "exited"
    /\ searchQuery = << >>
    /\ tableId = NoId
    /\ ~isPayingUser
    /\ sink = << >>

\* the entities the search has returned: those of the last call of searchCensusData
\* and those fetchAllSearchResults has collected
returnedIds ==
    { pageEntities[k] : k \in DOMAIN pageEntities }
    \cup { allEntities[k] : k \in DOMAIN allEntities }

\* the vintage the upstream gives for the instance with this id
vintageOf(id) ==
    catalog[CHOOSE k \in DOMAIN catalog : catalog[k].id = id].vintage

C22_ExactlyMaxItemsRecords ==
    (searchRun /\ pc = "done" /\ Truthy(maxItems) /\ Len(pageEntities) >= maxItems[1]) =>
        Len(sink) = maxItems[1]

\* C22: a search run ends with one record for each distinct id of the list the search
\* returned; with an effective cap N that list holds N entities when the last page
\* listed at least N, and the effective cap of a non-paying user who asks for more than
\* FREE_MAX_ITEMS is FREE_MAX_ITEMS
C22_OneRecordPerReturnedId ==
    (searchRun /\ pc = "done") =>
        /\ Len(sink) = Cardinality({ allEntities[k] : k \in DOMAIN allEntities })
        /\ (Truthy(effectiveMaxItems) /\ Len(pageEntities) >= effectiveMaxItems[1]) =>
               Len(allEntities) = effectiveMaxItems[1]
        /\ (~isPayingUser /\ Truthy(maxItems) /\ maxItems[1] > FREE_MAX_ITEMS) =>
               /\ effectiveMaxItems = << FREE_MAX_ITEMS >>
               /\ Len(sink) <= FREE_MAX_ITEMS
        /\ (isPayingUser /\ Truthy(maxItems) /\ Len(pageEntities) >= maxItems[1]
               /\ Len(allEntities) = Cardinality({ allEntities[k] : k \in DOMAIN allEntities })) =>
               Len(sink) = maxItems[1]

\* C22 witness: a non-paying user asked for one item more than FREE_MAX_ITEMS, the
\* search listed that many tables, and the run is done with FREE_MAX_ITEMS records
C22_Witness ==
    /\ pc = "done"
    /\ searchRun
    /\ ~isPayingUser
    /\ maxItems = << FREE_MAX_ITEMS + 1 >>
    /\ Len(pageEntities) = FREE_MAX_ITEMS + 1
    /\ Len(sink) = FREE_MAX_ITEMS


\* C23: every table record in the dataset has a tableId, a title, a url and a
\* scrapedTimestamp, whatever the metadata lacks and whatever the size guard removed
C23_TableRecordComplete ==
    \A r \in sinkRecords :
        r.kind = "table" =>
            /\ r.tableId # NoId
            /\ r.title # ""
            /\ r.url # NoId
            /\ r.scrapedTimestamp

\* C23 witness: a table without title and url, in a body without title, was pushed
\* without its data, as Unavailable Table and with the url of its id
C23_Witness ==
    /\ pc = "pushed"
    /\ rawTable.title = ""
    /\ rawTable.content.title = ""
    /\ rawTable.url = NoId
    /\ sink[1].kind = "table"
    /\ sink[1].dataOmitted
    /\ sink[1].title = UnavailableTable
    /\ sink[1].url = rawTable.id

\* C24 (as stated, violated): mapCensusTable throws exactly when there is no table or
\* the table has no id
C24_ThrowsOnlyWithoutId ==
    pc # "map" => ((pc = "mapthrown") <=> (rawTable.isNull \/ rawTable.id = NoId))

\* fetchTableMetadata gives a table a vintage whenever it gives it a year, so the
\* table main merges never has a year of its own without a vintage of its own
mergedYears(table) == table.year # << >> => table.vintage # << >>

\* C25: when the metadata body has no dataset year and no dataset vintage, the year
\* and the vintage of the record are the four digits before the dot of its tableId
\* (2021 for ACSDT1Y2021.B01001), and both are absent when the id has none
C25_YearFromIdentifier ==
    \A r \in sinkRecords :
        (/\ r.kind = "table"
         /\ rawTable.content.dsYear = ""
         /\ rawTable.content.dsVintage = ""
         /\ mergedYears(rawTable)) =>
            /\ r.year = CharsOf[r.tableId.year]
            /\ r.vintage = CharsOf[r.tableId.year]
            /\ r.tableId = MkId("ACSDT1Y", "2021", "B01001") =>
                   r.year = << "2", "0", "2", "1" >>

\* C25 witness: ACSDT1Y2021.B01001 without a dataset in its metadata and without a
\* year of its own was pushed with year and vintage 2021
C25_Witness ==
    /\ pc = "pushed"
    /\ rawTable.content.dsYear = ""
    /\ rawTable.content.dsVintage = ""
    /\ rawTable.year = << >>
    /\ sink[1].kind = "table"
    /\ sink[1].tableId = MkId("ACSDT1Y", "2021", "B01001")
    /\ sink[1].year = << "2", "0", "2", "1" >>
    /\ sink[1].vintage = << "2", "0", "2", "1" >>


\* C26 (as stated, violated): every error record in the dataset has an errorMessage
\* and a scrapedTimestamp and exactly one of tableId and entityId
C26_ExactlyOneIdentifier ==
    \A r \in sinkRecords :
        r.kind = "error" =>
            /\ r.errorMessage # ""
            /\ r.scrapedTimestamp
            /\ (r.tableId # NoId) # (r.entityId # NoId)

\* C26: every error record in the dataset has an errorMessage, a scrapedTimestamp and
\* a tableId; in a search run it also has an entityId, equal to its tableId, and in a
\* run with a tableId it has no entityId
C26_ErrorRecordShape ==
    \A r \in sinkRecords :
        r.kind = "error" =>
            /\ r.errorMessage # ""
            /\ r.scrapedTimestamp
            /\ r.tableId # NoId
            /\ searchRun => r.entityId = r.tableId
            /\ tableId # NoId => r.entityId = NoId

\* C26 witness: a search run has pushed the error record of a failed metadata request,
\* with tableId and entityId both the id of the entity
C26_Witness ==
    /\ searchRun
    /\ \E r \in sinkRecords :
          /\ r.kind = "error"
          /\ ~r.metaOk
          /\ r.tableId = r.src
          /\ r.entityId = r.src
          /\ r.errorMessage \in MetadataErrors


\* the batch an entity is processed in: that of its first place in the list (0-based)
batchOf(id) ==
    LET places == { k \in DOMAIN allEntities : allEntities[k] = id }
    IN  ((CHOOSE k \in places : \A n \in places : k <= n) - 1) \div BATCH_SIZE

\* C27: the records stand in the dataset batch after batch; at the head of the loop no
\* task is in flight and every entity of the batches before has its record; the tasks
\* in flight are those of the current batch alone
C27_BatchesInOrder ==
    (searchRun /\ pc \in { "batches", "inbatch", "done" }) =>
        /\ \A a, b \in DOMAIN sink :
               a < b => batchOf(sink[a].src) <= batchOf(sink[b].src)
        /\ \A k \in 1..joined : recordsOf(allEntities[k]) # {}
        /\ pc # "inbatch" => tasks = << >>
        /\ pc = "inbatch" =>
               /\ tasks # << >>
               /\ \A k \in DOMAIN tasks : tasks[k].entity = allEntities[i + k]
               /\ \A a \in DOMAIN sink : batchOf(sink[a].src) <= i \div BATCH_SIZE

\* C27 witness: the second batch is in flight with a fetch pending, and the dataset
\* holds the BATCH_SIZE records of the first batch, one of them an error record
C27_Witness ==
    /\ searchRun
    /\ pc = "inbatch"
    /\ i = BATCH_SIZE
    /\ tasks[1].st = "fetching"
    /\ Len(sink) = BATCH_SIZE
    /\ \A a \in DOMAIN sink : batchOf(sink[a].src) = 0
    /\ \E a \in DOMAIN sink : sink[a].kind = "error"



\* C28: once a batch has started, every entity of it ends with a record in the dataset
\* or was skipped (no id, or an id seen before, whose record is the one of its first
\* occurrence), provided every request and every pushData settles and the dataset
\* takes the error records; no step other than the join of the whole batch takes a
\* task away from main, whatever totalPushed is, and the cap decides nothing but
\* the exit at the head of the loop
terminalOutcome(j) == allEntities[j] = NoId \/ recordsOf(allEntities[j]) # {}

BatchInitCoversSearch ==
    (searchRun /\ pc = "batches" /\ i = 0) => allEntities \in EntityLists(effectiveMaxItems)


\* the entities main has handed to a task so far
startedCount == IF pc = "inbatch" THEN i + Len(tasks) ELSE joined

\* the task of an entity still has a request or a pushData pending
inFlight(k) == tasks[k].st \in { "fetching", "pushing", "errpushing" }

\* C29: in a search run a task is skipped, with no request and no record, exactly
\* when its entity has no id or its id was met before, in an earlier batch or earlier
\* in the same batch; of two tasks of one batch with the same id the first is the one
\* that fetches and emits and the second is skipped, whatever the order in which the
\* tasks of the batch settle; every id is fetched once (totalFetched counts the ids
\* of the seen set) and has at most one record or pending task
C29_DuplicatesSkipped ==
    (searchRun /\ pc \in { "batches", "inbatch", "done" }) =>
        /\ processedTableIds = { allEntities[j] : j \in 1..startedCount } \ { NoId }
        /\ totalFetched = Cardinality(processedTableIds)
        /\ \A id \in TableIds :
              Cardinality(recordsOf(id))
                + Cardinality({ k \in DOMAIN tasks : tasks[k].entity = id /\ inFlight(k) }) <= 1
        /\ \A id \in TableIds : recordsOf(id) # {} => id \in processedTableIds
        /\ pc = "inbatch" =>
              \A k \in DOMAIN tasks :
                  /\ tasks[k].st = "skipped" <=>
                        \/ tasks[k].entity = NoId
                        \/ \E j \in 1..(i + k - 1) : allEntities[j] = tasks[k].entity
                  /\ tasks[k].st = "skipped" => tasks[k].out = NoRec
                  /\ \A b \in DOMAIN tasks :
                        (k < b /\ tasks[b].entity = tasks[k].entity) => tasks[b].st = "skipped"

\* two tasks of one batch have the same id, met for the first time in this batch: the
\* first has pushed the only record of the id, the second was skipped
C29_Witness ==
    /\ searchRun
    /\ pc = "inbatch"
    /\ Len(tasks) = 2
    /\ tasks[1].entity = tasks[2].entity
    /\ tasks[1].entity # NoId
    /\ \A j \in 1..i : allEntities[j] # tasks[1].entity
    /\ tasks[1].st = "done"
    /\ tasks[2].st = "skipped"
    /\ Cardinality(recordsOf(tasks[1].entity)) = 1
    /\ totalFetched = Cardinality(processedTableIds)


\* the record the mapper returned and the record the guard handed to pushData
mappedRecord == tasks[1].out
pushedRecord == sink[Len(sink)]

\* C30: a mapped record within the budget is pushed as the mapper produced it, every
\* field equal and no omitted flag; a record over the budget that is pushed as a table
\* record differs from the mapped one in data, variables, dataSizeMB, dataOmitted and
\* variablesOmitted only: data is gone and flagged, variables is gone exactly when it
\* is flagged; what stays over the budget is not pushed at all, the error record
\* 'Table too large to process' takes its place
C30_GuardFrame ==
    pc = "pushed" =>
        IF byteLength(mappedRecord) <= MAX_ITEM_SIZE
        THEN /\ pushedRecord = mappedRecord
             /\ pushedRecord.kind = "table"
             /\ ~pushedRecord.dataOmitted
             /\ ~pushedRecord.variablesOmitted
             /\ pushedRecord.dataSizeMB = 0
        ELSE \/ /\ pushedRecord.kind = "table"
                /\ pushedRecord = [ mappedRecord EXCEPT
                                      !.data = pushedRecord.data,
                                      !.variables = pushedRecord.variables,
                                      !.dataSizeMB = pushedRecord.dataSizeMB,
                                      !.dataOmitted = pushedRecord.dataOmitted,
                                      !.variablesOmitted = pushedRecord.variablesOmitted ]
                /\ ~pushedRecord.data
                /\ pushedRecord.dataOmitted
                /\ pushedRecord.dataSizeMB > 0
                /\ pushedRecord.variablesOmitted <=> ~pushedRecord.variables
                /\ byteLength(pushedRecord) <= MAX_ITEM_SIZE
             \/ /\ pushedRecord.kind = "error"
                /\ pushedRecord.error = "Table too large to process"
                /\ byteLength(guardStep2(mappedRecord)) > MAX_ITEM_SIZE

\* a record over the budget went out without data and without variables, its title,
\* year and url as mapped
C30_Witness ==
    /\ pc = "pushed"
    /\ byteLength(mappedRecord) > MAX_ITEM_SIZE
    /\ mappedRecord.data
    /\ mappedRecord.variables
    /\ pushedRecord.kind = "table"
    /\ pushedRecord.variablesOmitted
    /\ pushedRecord.dataOmitted
    /\ pushedRecord.title = mappedRecord.title
    /\ pushedRecord.title = TableTitle
    /\ pushedRecord.year = mappedRecord.year
    /\ pushedRecord.url = mappedRecord.url
    /\ pushedRecord.url # NoId

\* a record within the budget went out as mapped
C30_WitnessWithinBudget ==
    /\ pc = "pushed"
    /\ byteLength(mappedRecord) <= MAX_ITEM_SIZE
    /\ pushedRecord = mappedRecord
    /\ pushedRecord.data
    /\ pushedRecord.variables


\* C31 (as stated): for a query that is not a broad topic a call of the search sends no
\* further term once it holds PAGE_SIZE entities, and for a broad topic a call returns
\* only when every term was sent
C31_EarlyStopUnlessBroad ==
    [][ /\ (~broadQuery /\ pc = "searching" /\ sent # << >>
               /\ Len(pageEntities) >= PAGE_SIZE) => Len(sent') <= Len(sent)
        /\ (broadQuery /\ pc = "searching" /\ pc' \in { "search", "batches" })
               => sent = expandBroadQueries(searchQuery) ]_vars


\* the resolver was run for the tableId of the input and returned null
unresolved ==
    /\ tableId # NoId
    /\ ~includesDot(tableId)
    /\ pc \in { "table", "done" }
    /\ \A k \in DOMAIN probes : ~probes[k].ok

C32_WitnessDirect ==
    /\ unresolved
    /\ pc = "done"
    /\ tableId = BareId
    /\ Len(probes) > 1
    /\ sink[1].src = BareId


\* C31: a call of the search requests the terms of the query in their order and
\* returns only when every term was requested, for a broad topic and for any other
\* query alike, however many entities the call already holds
C31_EveryTermRequested ==
    [][ /\ pc = "searching" => isPrefix(sent, normalizeSearchQuery(searchQuery))
        /\ (pc = "searching" /\ pc' \in { "search", "batches" })
               => sent = normalizeSearchQuery(searchQuery) ]_vars

\* incomes is no broad topic: the call holds a full page of entities and has requested
\* both terms, incomes and income
C31_Witness ==
    /\ ~broadQuery
    /\ searchQuery = s_incomes
    /\ sent = << s_incomes, s_income >>
    /\ pc = "searching"
    /\ Len(sent) = 2
    /\ Len(pageEntities) >= PAGE_SIZE
    /\ \E k \in 1..Len(pageEntities) : pageEntities[k] = TableSeq[1]


\* C33 (as stated, violated): when the id of the table has four digits before its dot,
\* the record mapCensusTable returns has a year and a vintage, whichever of the year
\* and vintage of the table and of its dataset are there
C33_YearAndVintagePresent ==
    (pc \in { "mapped", "pushed" } /\ matchYear(idString(rawTable.id)) # << >>) =>
        /\ mappedRecord.year # << >>
        /\ mappedRecord.vintage # << >>

\* C33: the table the claim fails on was mapped: a year of its own, no vintage of its
\* own, no dataset year or vintage, and the record has the year but no vintage
C33_YearWithoutVintage ==
    /\ pc = "mapped"
    /\ rawTable.id = MkId("ACSDT1Y", "2021", "B01001")
    /\ rawTable.year # << >>
    /\ rawTable.vintage = << >>
    /\ rawTable.content.dsYear = ""
    /\ rawTable.content.dsVintage = ""
    /\ mappedRecord.year = << "2", "0", "2", "1" >>
    /\ mappedRecord.vintage = << >>


\* the paging of fetchAllSearchResults ends without the cap being reached
pagingEnds ==
    /\ pc = "searching"
    /\ pc' = "batches"
    /\ ~CapReached(effectiveMaxItems, Len(allEntities'))

\* C34 (as stated, violated): the paging ends only when the upstream has no further
\* results, that is its last answers listed less than a page, or when the cap is
\* reached, also when the filters pass less than a page of the listed instances
C34_PagingEndsWhenExhausted ==
    [][ pagingEnds => Cardinality(listed) < PAGE_SIZE ]_vars

\* C34: the page the claim fails on: the upstream listed a full page, the dataset
\* filter passed one instance of it, the cap is not reached, and the call returns
C34_ShortFilteredPage ==
    /\ pc = "searching"
    /\ termIdx > Len(normalizeSearchQuery(searchQuery))
    /\ dataset = "acs/acs5"
    /\ currentPage = 0
    /\ Cardinality(listed) = PAGE_SIZE
    /\ pageEntities = << TableSeq[2] >>
    /\ effectiveMaxItems = << MaxCap >>


\* C35 (as stated, violated): the tableId of every table record in the dataset is the
\* id its task requested (the supplied or resolved tableId, or the id of the entity),
\* whichever id the metadata answer carries
C35_TableIdIsRequested ==
    \A r \in sinkRecords : r.kind = "table" => r.tableId = r.src

\* C35: the run the claim fails on: the tableId path has pushed a table record whose
\* tableId is the id of the metadata answer and not the tableId of the input
C35_TableIdFromMetadata ==
    /\ tableId = MkId("ACSDT1Y", "2021", "B01001")
    /\ pc = "done"
    /\ Len(sink) = 1
    /\ sink[1].kind = "table"
    /\ sink[1].src = tableId
    /\ sink[1].tableId = MkId("ACSDT5Y", "2021", "B01001")


\* the candidates of the probe list for the year filter that the upstream holds
heldForYear ==
    LET seq == probeSequence(tableId, dataset, year)
    IN  { seq[k] : k \in { n \in DOMAIN seq : seq[n].year = year /\ held(seq[n]) } }

\* C36 (as stated, violated): with a year filter, when the upstream holds a candidate
\* of the probe list for that year, the id findFullTableId returns carries that year
C36_ResolvedYearIsFilter ==
    (pc = "table" /\ year # "" /\ heldForYear # {}) => fullTableId.year = year

\* C36: the call the claim fails on: year filter 2021, no dataset filter, the upstream
\* holds ACSDT5Y2021.B01001 and the resolver has returned ACSDT1Y2023.B01001
C36_OtherYearReturned ==
    /\ pc = "table"
    /\ year = "2021"
    /\ dataset = ""
    /\ held(MkId("ACSDT5Y", "2021", "B01001"))
    /\ probes = << [ id |-> MkId("ACSDT1Y", "2021", "B01001"), ok |-> FALSE ],
                   [ id |-> MkId("ACSDT1Y", "2023", "B01001"), ok |-> TRUE ] >>
    /\ fullTableId = MkId("ACSDT1Y", "2023", "B01001")


\* C37: in the search path, whenever the head of the batch loop tests the cap with
\* entities left and an effective maxItems N >= 1, fewer than N records have been
\* pushed: the break of the batch loop is never taken, and the dataset never holds more
\* records than fetchAllSearchResults returned entities
C37_BatchCapNeverFires ==
    searchRun =>
        /\ (pc = "batches" /\ i < Len(allEntities) /\ Truthy(effectiveMaxItems)) =>
               /\ totalPushed < effectiveMaxItems[1]
               /\ ~batchCapReached
        /\ totalPushed <= Len(allEntities)
        /\ Len(sink) = totalPushed

\* C37 witness: the head of the loop tests the cap 3 before the second batch, with two
\* records pushed and a third entity left
C37_Witness ==
    /\ searchRun
    /\ pc = "batches"
    /\ effectiveMaxItems = << 3 >>
    /\ Len(allEntities) = 3
    /\ i = BATCH_SIZE
    /\ i < Len(allEntities)
    /\ totalPushed = 2


=============================================================================
